---- MODULE Spec2Model ----
(***************************************************************************)
(* A model of gerbi/models.py: the Page tree (MPTT nested set), the        *)
(* Content revisions, the shared cache and the per-instance memo fields of *)
(* Page objects.                                                           *)
(***************************************************************************)
EXTENDS Integers, Sequences, FiniteSets, TLC

VARIABLES
    now,        \* the wall clock read by datetime.now()
    settings,   \* gerbi.settings: the policy flags, fixed for a run
    pages,      \* the Page table: id -> row
    contents,   \* the Content table: a set of revision rows
    cache,      \* django.core.cache.cache: the shared cache
    objs,       \* the Page instances living in a process: their fields and memos
    ret         \* what the last operation returned

vars == <<now, settings, pages, contents, cache, objs, ret>>

-----------------------------------------------------------------------------
(* Bounds of the model *)

MaxPages == 5       \* pages of a forest in the book-traversal specification
MaxTime == 2        \* the clock runs over 0..MaxTime

(* Values *)

None == -1                  \* Python's None where an id, a date or a status is expected
AssertionError == -2        \* the operation raised instead of returning

DRAFT == 0
PUBLISHED == 1
EXPIRED == 2
HIDDEN == 3

PageIds == 1..MaxPages
Times == 0..MaxTime

-----------------------------------------------------------------------------
(* The tree: MPTT's nested set over the Page table *)

\* Meta.ordering = ['tree_id', 'lft']: the order of every query on Page
Before(a, b) ==
    \/ pages[a].tree_id < pages[b].tree_id
    \/ pages[a].tree_id = pages[b].tree_id /\ pages[a].lft < pages[b].lft

\* a query set as the sequence of its rows in Meta.ordering
RECURSIVE Ordered(_)
Ordered(S) ==
    IF S = {} THEN <<>>
    ELSE LET first == CHOOSE a \in S : \A b \in S \ {a} : Before(a, b)
         IN  <<first>> \o Ordered(S \ {first})

Reverse(s) == [i \in 1..Len(s) |-> s[Len(s) + 1 - i]]

is_root_node(p) == pages[p].parent = None

get_children(p) == Ordered({q \in DOMAIN pages : pages[q].parent = p})

get_ancestors(p, ascending) ==
    LET anc == IF is_root_node(p) THEN {}
               ELSE {q \in DOMAIN pages : /\ pages[q].tree_id = pages[p].tree_id
                                          /\ pages[q].lft < pages[p].lft
                                          /\ pages[q].rght > pages[p].rght}
    IN  IF ascending THEN Reverse(Ordered(anc)) ELSE Ordered(anc)

\* a mutant of get_descendants: the children only
get_descendants_children(p) ==
    Ordered({q \in DOMAIN pages : pages[q].parent = p})

get_descendants(p) ==
    Ordered({q \in DOMAIN pages : /\ pages[q].tree_id = pages[p].tree_id
                                  /\ pages[q].lft > pages[p].lft
                                  /\ pages[q].lft < pages[p].rght})

get_next_sibling(p) ==
    LET sib == IF is_root_node(p)
               THEN {q \in DOMAIN pages : /\ pages[q].parent = None
                                          /\ pages[q].tree_id > pages[p].tree_id}
               ELSE {q \in DOMAIN pages : /\ pages[q].parent = pages[p].parent
                                          /\ pages[q].lft > pages[p].rght}
    IN  IF sib = {} THEN None ELSE Ordered(sib)[1]

\* a mutant of get_previous_sibling: the first of the earlier siblings, as
\* without order_by('-rght')
get_previous_sibling_first(p) ==
    LET sib == IF is_root_node(p)
               THEN {q \in DOMAIN pages : /\ pages[q].parent = None
                                          /\ pages[q].tree_id < pages[p].tree_id}
               ELSE {q \in DOMAIN pages : /\ pages[q].parent = pages[p].parent
                                          /\ pages[q].rght < pages[p].lft}
    IN  IF sib = {} THEN None ELSE Ordered(sib)[1]

get_previous_sibling(p) ==
    LET sib == IF is_root_node(p)
               THEN {q \in DOMAIN pages : /\ pages[q].parent = None
                                          /\ pages[q].tree_id < pages[p].tree_id}
               ELSE {q \in DOMAIN pages : /\ pages[q].parent = pages[p].parent
                                          /\ pages[q].rght < pages[p].lft}
    IN  IF sib = {} THEN None ELSE Ordered(sib)[Cardinality(sib)]

get_root(p) ==
    IF is_root_node(p) THEN p
    ELSE CHOOSE q \in DOMAIN pages : /\ pages[q].tree_id = pages[p].tree_id
                                     /\ pages[q].parent = None

\* qs[start:stop] on a query set: a negative bound fails the assertion
\* "Negative indexing is not supported." of QuerySet.__getitem__
SliceRaises(start, stop) == start < 0 \/ stop < 0

Slice(qs, start, stop) ==
    SubSeq(qs, start + 1, IF stop < Len(qs) THEN stop ELSE Len(qs))

-----------------------------------------------------------------------------
(* Book traversal *)

\* the for loop of get_next_in_book: the first ancestor with a next sibling
RECURSIVE FirstNextSibling(_)
FirstNextSibling(anc) ==
    IF anc = <<>> THEN None
    ELSE IF get_next_sibling(Head(anc)) # None THEN get_next_sibling(Head(anc))
    ELSE FirstNextSibling(Tail(anc))

get_next_in_book(p) ==
    LET chd == get_children(p)
    IN  IF 0 < Len(chd) THEN chd[1]
        ELSE IF get_next_sibling(p) # None THEN get_next_sibling(p)
        ELSE LET cnt == Len(get_ancestors(p, TRUE))
             IN  \* Not interested by the root don't want to 'switch' tree.
                 IF SliceRaises(0, cnt - 1) THEN AssertionError
                 ELSE FirstNextSibling(Slice(get_ancestors(p, TRUE), 0, cnt - 1))

get_prev_in_book(p) ==
    IF ~is_root_node(p)
    THEN LET sib == get_previous_sibling(p)
         IN  IF sib # None
             THEN LET dsc == get_descendants(sib)
                      cnt == Len(dsc)
                  IN  IF 0 = Len(dsc) THEN sib ELSE dsc[cnt]
             ELSE pages[p].parent
    ELSE None

-----------------------------------------------------------------------------
(* The Page table *)

\* MPTT's insert of a new node: a new tree after the last one when it has no
\* parent, else the last child of its parent, the bounds at and after the
\* parent's right bound moving up by two
InsertNode(P, id, parent, fields) ==
    IF parent = None
    THEN LET tree == IF DOMAIN P = {} THEN 1
                     ELSE 1 + (CHOOSE t \in {P[q].tree_id : q \in DOMAIN P} :
                                   \A q \in DOMAIN P : P[q].tree_id <= t)
             row == [fields EXCEPT !.parent = None, !.tree_id = tree,
                                   !.lft = 1, !.rght = 2, !.level = 0]
         IN  [q \in DOMAIN P \cup {id} |-> IF q = id THEN row ELSE P[q]]
    ELSE LET target == P[parent]
             row == [fields EXCEPT !.parent = parent, !.tree_id = target.tree_id,
                                   !.lft = target.rght, !.rght = target.rght + 1,
                                   !.level = target.level + 1]
             shifted(r) ==
                 IF r.tree_id # target.tree_id THEN r
                 ELSE [r EXCEPT !.lft = IF r.lft >= target.rght THEN r.lft + 2 ELSE r.lft,
                                !.rght = IF r.rght >= target.rght THEN r.rght + 2 ELSE r.rght]
         IN  [q \in DOMAIN P \cup {id} |-> IF q = id THEN row ELSE shifted(P[q])]

\* the fields of a Page as Page.__init__ and the field defaults leave them
NewPageFields ==
    [parent |-> None, tree_id |-> 0, lft |-> 0, rght |-> 0, level |-> 0,
     status |-> DRAFT, publication_date |-> None, publication_end_date |-> None,
     freeze_date |-> None, last_modification_date |-> None]

NoPages == [q \in {} |-> NewPageFields]

\* the table after the pages 1..n were created in turn, page i under pv[i]
RECURSIVE Forest(_, _)
Forest(pv, n) ==
    IF n = 0 THEN NoPages
    ELSE InsertNode(Forest(pv, n - 1), n, pv[n],
                    [NewPageFields EXCEPT !.last_modification_date = 0])

ParentVectors(n) ==
    {pv \in [1..n -> {None} \cup (1..n)] : \A i \in 1..n : pv[i] = None \/ pv[i] < i}

-----------------------------------------------------------------------------
(* The shared cache and the settings *)

NoDict == [n \in {"None"} |-> "None"]      \* cache.get of an absent dict
EmptyDict == [n \in {} |-> "None"]          \* {}

EmptyCache ==
    [GERBI_FIRST_ROOT_ID |-> None,
     gerbi_page |-> [p \in PageIds |-> NoDict],
     page_url |-> [p \in PageIds |-> NoDict],
     page_broken_link |-> [p \in PageIds |-> "None"]]

DefaultSettings ==
    [GERBI_SHOW_START_DATE |-> FALSE, GERBI_SHOW_END_DATE |-> FALSE,
     GERBI_HIDE_ROOT_SLUG |-> FALSE, GERBI_LANGUAGES |-> <<"en", "fr">>]

\* a Page instance: its id and field values, and the per instance cache of
\* Page.__init__
NoList == <<"None">>                        \* _languages = None

NewPage ==
    [id |-> None, parent |-> None,
     status |-> DRAFT, publication_date |-> None, publication_end_date |-> None,
     freeze_date |-> None, last_modification_date |-> None,
     cache |-> NoDict, _languages |-> NoList, _complete_slug |-> NoDict,
     _is_first_root |-> "None"]

\* Page.objects.get(id=p): a fresh instance of a stored page
LoadedPage(p) ==
    [NewPage EXCEPT !.id = p, !.parent = pages[p].parent,
                    !.status = pages[p].status,
                    !.publication_date = pages[p].publication_date,
                    !.publication_end_date = pages[p].publication_end_date,
                    !.freeze_date = pages[p].freeze_date,
                    !.last_modification_date = pages[p].last_modification_date]

NoObjs == [o \in {} |-> NewPage]

NoRet == [op |-> "none", page |-> None, value |-> None]

-----------------------------------------------------------------------------
(* Book traversal over a forest *)

InitBook ==
    /\ \E n \in 1..MaxPages : \E pv \in ParentVectors(n) : pages = Forest(pv, n)
    /\ now = 0
    /\ settings = DefaultSettings
    /\ contents = {}
    /\ cache = EmptyCache
    /\ objs = NoObjs
    /\ ret = NoRet

NextInBook(p) ==
    /\ ret' = [op |-> "get_next_in_book", page |-> p, value |-> get_next_in_book(p)]
    /\ UNCHANGED <<now, settings, pages, contents, cache, objs>>

PrevInBook(p) ==
    /\ ret' = [op |-> "get_prev_in_book", page |-> p, value |-> get_prev_in_book(p)]
    /\ UNCHANGED <<now, settings, pages, contents, cache, objs>>

NextBook ==
    \/ \E p \in DOMAIN pages : NextInBook(p)
    \/ \E p \in DOMAIN pages : PrevInBook(p)

SpecBook == InitBook /\ [][NextBook]_vars

-----------------------------------------------------------------------------
(* Document order of a tree, from the parent references *)

ChildrenOf(p) == Ordered({q \in DOMAIN pages : pages[q].parent = p})

RECURSIVE Prefix(_)
Prefix(s) ==
    IF s = <<>> THEN <<>>
    ELSE <<Head(s)>> \o Prefix(ChildrenOf(Head(s))) \o Prefix(Tail(s))

TreeRoot(p) ==
    CHOOSE r \in DOMAIN pages : pages[r].parent = None /\ pages[r].tree_id = pages[p].tree_id

Book(p) == Prefix(<<TreeRoot(p)>>)

PositionIn(s, p) == CHOOSE i \in 1..Len(s) : s[i] = p

BookSuccessor(p) ==
    LET i == PositionIn(Book(p), p)
    IN  IF i = Len(Book(p)) THEN None ELSE Book(p)[i + 1]

BookPredecessor(p) ==
    LET i == PositionIn(Book(p), p)
    IN  IF i = 1 THEN None ELSE Book(p)[i - 1]

IsPage(v) == v \in DOMAIN pages

-----------------------------------------------------------------------------
(* Claims on book traversal, under SpecBook *)

\* C4: for every page P, whenever get_next_in_book(P) returns a page N and
\* get_prev_in_book(N) returns a page, that page is P.
PrevOfNextIsSelf ==
    \A p \in DOMAIN pages :
        LET n == get_next_in_book(p)
        IN  (IsPage(n) /\ IsPage(get_prev_in_book(n))) => get_prev_in_book(n) = p

\* C4 witness: get_next_in_book climbed to an ancestor's next sibling, and
\* get_prev_in_book of the result descends back to the page it came from.
PrevOfNextClimbed ==
    /\ ret.op = "get_next_in_book"
    /\ IsPage(ret.value)
    /\ pages[ret.value].parent # ret.page
    /\ pages[ret.value].parent # pages[ret.page].parent
    /\ get_prev_in_book(ret.value) = ret.page

\* C5 (as claimed): a page returned by get_next_in_book or get_prev_in_book
\* belongs to the tree of the page it was asked for.
BookStaysInTree ==
    (ret.op \in {"get_next_in_book", "get_prev_in_book"} /\ IsPage(ret.value))
        => pages[ret.value].tree_id = pages[ret.page].tree_id

\* C6 (as claimed): whenever get_next_in_book returns, it returns the successor
\* of the page in prefix depth-first order of its tree, None for the last page.
NextIsBookSuccessor ==
    (ret.op = "get_next_in_book" /\ ret.value # AssertionError)
        => ret.value = BookSuccessor(ret.page)

\* C7: get_prev_in_book returns None for a tree root and for every other page
\* its predecessor in prefix depth-first order of its tree: the parent when
\* there is no previous sibling, else the previous sibling's last descendant,
\* else that sibling.
PrevIsBookPredecessor ==
    ret.op = "get_prev_in_book" =>
        LET p == ret.page
            sibs == {q \in DOMAIN pages : /\ pages[q].parent = pages[p].parent
                                          /\ pages[q].lft < pages[p].lft}
        IN  /\ ret.value = BookPredecessor(p)
            /\ pages[p].parent = None => ret.value = None
            /\ (pages[p].parent # None /\ sibs = {}) => ret.value = pages[p].parent
            /\ (pages[p].parent # None /\ sibs # {}) =>
                   LET sib == CHOOSE q \in sibs : \A r \in sibs : pages[r].lft <= pages[q].lft
                       sub == Prefix(<<sib>>)
                   IN  ret.value = sub[Len(sub)]

\* C7 witness: the previous sibling has descendants and its last one came back.
PrevIsLastDescendant ==
    /\ ret.op = "get_prev_in_book"
    /\ IsPage(ret.value)
    /\ pages[ret.value].parent # pages[ret.page].parent
    /\ ret.value # pages[ret.page].parent

-----------------------------------------------------------------------------
(* Page.save, Page.invalidate and the calculated status *)

\* if not self.status: self.status = self.DRAFT
SavedStatus(status) ==
    IF status = None \/ status = 0 THEN DRAFT ELSE status

\* a mutant of SavedPublicationDate: a Draft keeps a date equal to now
SavedPublicationDate_lt(status, publication_date, t) ==
    LET stamped == IF publication_date = None /\ SavedStatus(status) = PUBLISHED
                   THEN t ELSE publication_date
    IN  IF SavedStatus(status) = DRAFT
        THEN IF settings.GERBI_SHOW_START_DATE
             THEN IF stamped # None /\ stamped < t THEN None ELSE stamped
             ELSE None
        ELSE stamped

\* a mutant of SavedPublicationDate: a Published page is not stamped
SavedPublicationDate_unstamped(status, publication_date, t) ==
    IF SavedStatus(status) = DRAFT
    THEN IF settings.GERBI_SHOW_START_DATE
         THEN IF publication_date # None /\ publication_date <= t
              THEN None ELSE publication_date
         ELSE None
    ELSE publication_date

\* the publication date Page.save leaves, t being datetime.now()
SavedPublicationDate(status, publication_date, t) ==
    LET stamped == IF publication_date = None /\ SavedStatus(status) = PUBLISHED
                   THEN t ELSE publication_date
    IN  IF SavedStatus(status) = DRAFT
        THEN IF settings.GERBI_SHOW_START_DATE
             THEN IF stamped # None /\ stamped <= t THEN None ELSE stamped
             ELSE None
        ELSE stamped

\* a mutant of InvalidatedCache: the URL key is left in the cache
InvalidatedCache_url_kept(c, id) ==
    [c EXCEPT !.GERBI_FIRST_ROOT_ID = None,
              !.gerbi_page[id] = NoDict]

\* a mutant of InvalidatedCache: the content key is left in the cache
InvalidatedCache_content_kept(c, id) ==
    [c EXCEPT !.GERBI_FIRST_ROOT_ID = None,
              !.page_url[id] = NoDict]

\* a mutant of InvalidatedCache: the URL keys of all pages are deleted
InvalidatedCache_every_url(c, id) ==
    [c EXCEPT !.GERBI_FIRST_ROOT_ID = None,
              !.gerbi_page[id] = NoDict,
              !.page_url = [p \in DOMAIN @ |-> NoDict]]

\* the cache.delete calls of Page.invalidate
InvalidatedCache(c, id) ==
    [c EXCEPT !.GERBI_FIRST_ROOT_ID = None,
              !.gerbi_page[id] = NoDict,
              !.page_url[id] = NoDict]

\* a mutant of InvalidatedPage: the memo of complete slugs is kept
InvalidatedPage_slug_kept(page) ==
    [page EXCEPT !._languages = NoList, !.cache = NoDict]

\* the per instance fields Page.invalidate resets
InvalidatedPage(page) ==
    [page EXCEPT !._languages = NoList, !._complete_slug = NoDict, !.cache = NoDict]

\* a mutant of BrokenLinkDeleted: Page.save leaves the flag
BrokenLinkDeleted_skipped(c, id) == c

\* cache.delete(self.GERBI_BROKEN_LINK_KEY % self.id); an instance without id
\* names a key no page has
BrokenLinkDeleted(c, id) ==
    IF id = None THEN c ELSE [c EXCEPT !.page_broken_link[id] = "None"]

\* what the shared cache and an instance hold for a page before an operation
Held(page, id) ==
    [GERBI_FIRST_ROOT_ID |-> cache.GERBI_FIRST_ROOT_ID # None,
     gerbi_page |-> cache.gerbi_page[id] # NoDict,
     page_url |-> cache.page_url[id] # NoDict,
     languages |-> IF cache.page_url[id] = NoDict THEN {} ELSE DOMAIN cache.page_url[id],
     page_broken_link |-> cache.page_broken_link[id],
     cache |-> page.cache # NoDict,
     _languages |-> page._languages # NoList,
     _complete_slug |-> page._complete_slug # NoDict]

\* the row super(Page, self).save() writes: an insert into the tree for an
\* instance without id, else an update of the row's fields
\* the ids an insert may assign: those of no row, and of no deleted row that
\* the shared cache or an instance still names
FreeIds ==
    {i \in PageIds : /\ i \notin DOMAIN pages
                     /\ cache.GERBI_FIRST_ROOT_ID # i
                     /\ cache.gerbi_page[i] = NoDict
                     /\ cache.page_url[i] = NoDict
                     /\ cache.page_broken_link[i] = "None"
                     /\ \A o \in DOMAIN objs : objs[o].id # i /\ objs[o].parent # i}

NextId == CHOOSE i \in FreeIds : \A j \in FreeIds : i <= j

SavedRows(page, id) ==
    LET fields == [NewPageFields EXCEPT
                       !.status = page.status,
                       !.publication_date = page.publication_date,
                       !.publication_end_date = page.publication_end_date,
                       !.freeze_date = page.freeze_date,
                       !.last_modification_date = page.last_modification_date]
    IN  IF page.id = None
        THEN InsertNode(pages, id, page.parent, fields)
        ELSE [pages EXCEPT ![id] = [fields EXCEPT !.parent = pages[id].parent,
                                                   !.tree_id = pages[id].tree_id,
                                                   !.lft = pages[id].lft,
                                                   !.rght = pages[id].rght,
                                                   !.level = pages[id].level]]

\* Page.save
PageSave(o) ==
    LET self == objs[o]
        id == IF self.id = None THEN NextId ELSE self.id
        normal == [self EXCEPT
                       !.status = SavedStatus(self.status),
                       !.publication_date =
                           SavedPublicationDate(self.status, self.publication_date, now),
                       !.last_modification_date = now]
    IN  /\ self.id = None => FreeIds # {}
        /\ self.id # None => self.id \in DOMAIN pages
        /\ pages' = SavedRows(normal, id)
        /\ cache' = InvalidatedCache(BrokenLinkDeleted(cache, self.id), id)
        /\ objs' = [objs EXCEPT ![o] = InvalidatedPage([normal EXCEPT !.id = id])]
        /\ ret' = [op |-> "save", obj |-> o, now |-> now, held |-> Held(self, id),
                   before |-> [status |-> self.status,
                               publication_date |-> self.publication_date]]
        /\ UNCHANGED <<now, settings, contents>>

\* Page.invalidate, called on an instance of a stored page
Invalidate(o) ==
    /\ objs[o].id # None
    /\ cache' = InvalidatedCache(cache, objs[o].id)
    /\ objs' = [objs EXCEPT ![o] = InvalidatedPage(objs[o])]
    /\ ret' = [op |-> "invalidate", obj |-> o, held |-> Held(objs[o], objs[o].id)]
    /\ UNCHANGED <<now, settings, pages, contents>>

\* a mutant of calculated_status: a publication date equal to now counts as
\* in the future
calculated_status_ge(page) ==
    IF /\ settings.GERBI_SHOW_START_DATE
       /\ page.publication_date # None
       /\ page.publication_date >= now
    THEN DRAFT
    ELSE IF /\ settings.GERBI_SHOW_END_DATE
            /\ page.publication_end_date # None
            /\ page.publication_end_date < now
    THEN EXPIRED
    ELSE page.status

\* Page._get_calculated_status
calculated_status(page) ==
    IF /\ settings.GERBI_SHOW_START_DATE
       /\ page.publication_date # None
       /\ page.publication_date > now
    THEN DRAFT
    ELSE IF /\ settings.GERBI_SHOW_END_DATE
            /\ page.publication_end_date # None
            /\ page.publication_end_date < now
    THEN EXPIRED
    ELSE page.status

GetCalculatedStatus(o) ==
    /\ ret' = [op |-> "calculated_status", obj |-> o,
               before |-> [status |-> objs[o].status],
               value |-> calculated_status(objs[o])]
    /\ UNCHANGED <<now, settings, pages, contents, cache, objs>>

\* datetime.now() moves on between two operations
Tick ==
    /\ now < MaxTime
    /\ now' = now + 1
    /\ ret' = [op |-> "tick"]
    /\ UNCHANGED <<settings, pages, contents, cache, objs>>

\* an author sets the status and the dates of an instance before saving it
Statuses == {None, DRAFT, PUBLISHED, EXPIRED, HIDDEN}
Dates == {None} \cup Times

SetStatus(o, status) ==
    /\ objs' = [objs EXCEPT ![o].status = status]
    /\ ret' = [op |-> "edit", obj |-> o]
    /\ UNCHANGED <<now, settings, pages, contents, cache>>

SetPublicationDate(o, date) ==
    /\ objs' = [objs EXCEPT ![o].publication_date = date]
    /\ ret' = [op |-> "edit", obj |-> o]
    /\ UNCHANGED <<now, settings, pages, contents, cache>>

SetPublicationEndDate(o, date) ==
    /\ objs' = [objs EXCEPT ![o].publication_end_date = date]
    /\ ret' = [op |-> "edit", obj |-> o]
    /\ UNCHANGED <<now, settings, pages, contents, cache>>

-----------------------------------------------------------------------------
(* The publication state machine: one new Page, edited and saved over time *)

InitStatus ==
    /\ now = 0
    /\ settings \in [GERBI_SHOW_START_DATE : BOOLEAN, GERBI_SHOW_END_DATE : BOOLEAN,
                     GERBI_HIDE_ROOT_SLUG : {FALSE}, GERBI_LANGUAGES : {<<"en", "fr">>}]
    /\ pages = NoPages
    /\ contents = {}
    /\ cache = EmptyCache
    /\ objs = [o \in {1} |-> NewPage]
    /\ ret = NoRet

NextStatus ==
    \/ \E status \in Statuses : SetStatus(1, status)
    \/ \E date \in Dates : SetPublicationDate(1, date)
    \/ \E date \in Dates : SetPublicationEndDate(1, date)
    \/ PageSave(1)
    \/ GetCalculatedStatus(1)
    \/ Tick

SpecStatus == InitStatus /\ [][NextStatus]_vars

-----------------------------------------------------------------------------
(* Claims on the publication state machine, under SpecStatus *)

\* C8: the calculated status is Draft when the start-date policy is on and the
\* publication date is set and in the future, whatever the status and the end
\* date; otherwise Expired when the end-date policy is on and the publication
\* end date is set and has passed; otherwise the status of the page. Computing
\* it leaves the status as it was.
CalculatedStatusRule ==
    ret.op = "calculated_status" =>
        LET page == objs[ret.obj]
            notYet == /\ settings.GERBI_SHOW_START_DATE
                      /\ page.publication_date \in Times
                      /\ now < page.publication_date
            over == /\ settings.GERBI_SHOW_END_DATE
                    /\ page.publication_end_date \in Times
                    /\ page.publication_end_date < now
        IN  /\ notYet => ret.value = DRAFT
            /\ (~notYet /\ over) => ret.value = EXPIRED
            /\ (~notYet /\ ~over) => ret.value = page.status
            /\ page.status = ret.before.status

\* C8 witness: a Published page whose end date has passed reads Draft because
\* its publication date is still ahead.
CalculatedDraftBeatsExpired ==
    /\ ret.op = "calculated_status"
    /\ ret.value = DRAFT
    /\ objs[ret.obj].status = PUBLISHED
    /\ settings.GERBI_SHOW_END_DATE
    /\ objs[ret.obj].publication_end_date \in Times
    /\ objs[ret.obj].publication_end_date < now

\* C9: after Page.save of a page whose status is Draft, under the start-date
\* policy a publication date not in the future is cleared and one in the future
\* is kept, without the policy it is cleared; a stored Draft page carries no
\* publication date that was in the past when it was saved.
DraftSaveClearsPastDate ==
    /\ (ret.op = "save" /\ objs[ret.obj].status = DRAFT) =>
           LET was == ret.before.publication_date
               is == objs[ret.obj].publication_date
           IN  /\ ~settings.GERBI_SHOW_START_DATE => is = None
               /\ (settings.GERBI_SHOW_START_DATE /\ was \in Times /\ was <= ret.now)
                      => is = None
               /\ (settings.GERBI_SHOW_START_DATE /\ was \in Times /\ was > ret.now)
                      => is = was
               /\ pages[objs[ret.obj].id].publication_date = is
    /\ \A p \in DOMAIN pages :
           pages[p].status = DRAFT =>
               \/ pages[p].publication_date = None
               \/ pages[p].publication_date > pages[p].last_modification_date

\* C9 witness: a Draft saved under the policy with a publication date of that
\* very moment lost it.
DraftSavedAtPublicationDate ==
    /\ ret.op = "save"
    /\ settings.GERBI_SHOW_START_DATE
    /\ objs[ret.obj].status = DRAFT
    /\ ret.before.publication_date = ret.now
    /\ objs[ret.obj].publication_date = None

\* C10: after Page.save a stored Published page has a publication date: the
\* time of the save when none was set, else the date it had; a status that was
\* unset is stored as Draft.
PublishedSaveStampsDate ==
    /\ ret.op = "save" =>
           LET row == pages[objs[ret.obj].id]
           IN  /\ ret.before.status = None => row.status = DRAFT
               /\ ret.before.status \in {PUBLISHED, EXPIRED, HIDDEN}
                      => row.status = ret.before.status
               /\ (row.status = PUBLISHED /\ ret.before.publication_date = None)
                      => row.publication_date = ret.now
               /\ (row.status = PUBLISHED /\ ret.before.publication_date # None)
                      => row.publication_date = ret.before.publication_date
    /\ \A p \in DOMAIN pages :
           pages[p].status = PUBLISHED => pages[p].publication_date \in Times

\* C10 witness: a Published page without publication date was saved after the
\* clock had moved and carries the time of the save.
PublishedSavedWithoutDate ==
    /\ ret.op = "save"
    /\ ret.before.status = PUBLISHED
    /\ ret.before.publication_date = None
    /\ ret.now > 0
    /\ pages[objs[ret.obj].id].publication_date = ret.now

-----------------------------------------------------------------------------
(* Content and the content cache *)

GERBI_LANGUAGES == settings.GERBI_LANGUAGES
GERBI_DEFAULT_LANGUAGE == "en"
Languages == {GERBI_LANGUAGES[i] : i \in 1..Len(GERBI_LANGUAGES)}
NoLanguage == ""                    \* language=None
Types == {"slug", "title"}          \* the content types in use
Bodies == {"a", "b"}

Truthy(dict) == dict # NoDict /\ dict # EmptyDict

\* a mutant of Revisions: creation_date__lt instead of creation_date__lte
Revisions_lt(page, lang) ==
    {c \in contents : /\ c.page = page.id
                      /\ c.language = lang
                      /\ page.freeze_date # None => c.creation_date < page.freeze_date}

\* Content.objects.filter(**params) of build_cache: the revisions of a page in
\* a language, up to the freeze date of the instance when it has one
Revisions(page, lang) ==
    {c \in contents : /\ c.page = page.id
                      /\ c.language = lang
                      /\ page.freeze_date # None => c.creation_date <= page.freeze_date}

\* .values('type').annotate(Max("creation_date")): one entry per content type
TypesOf(page, lang) == {c.type : c \in Revisions(page, lang)}

\* Content.objects.get_content_object: the rows latest() may return, the ones
\* with the greatest creation date up to the freeze date; none is DoesNotExist
get_content_object(page, lang, ctype) ==
    LET revs == {c \in contents : /\ c.page = page.id
                                  /\ c.language = lang
                                  /\ c.type = ctype
                                  /\ page.freeze_date # None
                                         => c.creation_date <= page.freeze_date}
    IN  {c \in revs : \A d \in revs : d.creation_date <= c.creation_date}

\* the dicts the loop body of build_cache may leave in self.cache[lang]
LanguageDicts(page, lang) ==
    LET types == {t \in TypesOf(page, lang) : get_content_object(page, lang, t) # {}}
        picks == {g \in [types -> contents] :
                      \A t \in types : g[t] \in get_content_object(page, lang, t)}
    IN  {[t \in types |-> [body |-> g[t].body, creation_date |-> g[t].creation_date]] :
             g \in picks}

\* self.cache = self.cache or cache.get(key)
MemoOrShared(page) ==
    IF Truthy(page.cache) THEN page.cache ELSE cache.gerbi_page[page.id]

\* a mutant of NeededLanguages: a key absent from the shared cache is read as
\* a page without content
NeededLanguages_absent_is_empty(page, language) ==
    LET languages == IF language # NoLanguage THEN {language} ELSE Languages
        have == IF MemoOrShared(page) = NoDict THEN languages ELSE DOMAIN MemoOrShared(page)
    IN  languages \ have

\* needed_languages of build_cache
NeededLanguages(page, language) ==
    LET languages == IF language # NoLanguage THEN {language} ELSE Languages
        have == IF MemoOrShared(page) = NoDict THEN {} ELSE DOMAIN MemoOrShared(page)
    IN  languages \ have

\* what the loop of build_cache may compute for the needed languages
Builds(page, language) ==
    LET needed == NeededLanguages(page, language)
        all == UNION {LanguageDicts(page, lang) : lang \in needed}
    IN  {built \in [needed -> all] : \A lang \in needed : built[lang] \in LanguageDicts(page, lang)}

\* self.cache when build_cache returns
BuiltCache(page, built) ==
    LET start == IF MemoOrShared(page) = NoDict THEN EmptyDict ELSE MemoOrShared(page)
    IN  [lang \in DOMAIN start \cup DOMAIN built |->
             IF lang \in DOMAIN built THEN built[lang] ELSE start[lang]]

\* if len(needed_languages): cache.set(key, self.cache)
SharedAfterBuild(page, built) ==
    IF DOMAIN built # {}
    THEN [cache EXCEPT !.gerbi_page[page.id] = BuiltCache(page, built)]
    ELSE cache

\* a mutant of BuildCache: the id is checked after self.cache was set
BuildCache_late_check(o, language) ==
    LET self == objs[o]
    IN  /\ IF self.id = None
           THEN /\ objs' = [objs EXCEPT ![o].cache = IF @ = NoDict THEN EmptyDict ELSE @]
                /\ cache' = cache
                /\ ret' = [op |-> "build_cache", obj |-> o, language |-> language,
                           needed |-> {}, value |-> NoDict, raised |-> "ValueError"]
           ELSE \E built \in Builds(self, language) :
                    /\ objs' = [objs EXCEPT ![o].cache = BuiltCache(self, built)]
                    /\ cache' = SharedAfterBuild(self, built)
                    /\ ret' = [op |-> "build_cache", obj |-> o, language |-> language,
                               needed |-> DOMAIN built, value |-> BuiltCache(self, built),
                               raised |-> "None"]
        /\ UNCHANGED <<now, settings, pages, contents>>

\* Page.build_cache: ValueError for an instance without id, before anything
\* else; value is self.cache as returned
BuildCache(o, language) ==
    LET self == objs[o]
    IN  /\ IF self.id = None
           THEN /\ objs' = objs
                /\ cache' = cache
                /\ ret' = [op |-> "build_cache", obj |-> o, language |-> language,
                           needed |-> {}, value |-> NoDict, raised |-> "ValueError"]
           ELSE \E built \in Builds(self, language) :
                    /\ objs' = [objs EXCEPT ![o].cache = BuiltCache(self, built)]
                    /\ cache' = SharedAfterBuild(self, built)
                    /\ ret' = [op |-> "build_cache", obj |-> o, language |-> language,
                               needed |-> DOMAIN built, value |-> BuiltCache(self, built),
                               raised |-> "None"]
        /\ UNCHANGED <<now, settings, pages, contents>>

\* Page.get_languages
GetLanguages(o) ==
    LET self == objs[o]
    IN  /\ self.id # None
        /\ IF self._languages # NoList /\ self._languages # <<>>
           THEN /\ ret' = [op |-> "get_languages", obj |-> o, value |-> self._languages]
                /\ UNCHANGED <<objs, cache>>
           ELSE \E built \in Builds(self, NoLanguage) :
                    LET dict == BuiltCache(self, built)
                        langs == SelectSeq(GERBI_LANGUAGES,
                                           LAMBDA lang : /\ lang \in DOMAIN dict
                                                         /\ dict[lang] # EmptyDict)
                    IN  /\ objs' = [objs EXCEPT ![o].cache = dict, ![o]._languages = langs]
                        /\ cache' = SharedAfterBuild(self, built)
                        /\ ret' = [op |-> "get_languages", obj |-> o, value |-> langs]
        /\ UNCHANGED <<now, settings, pages, contents>>

\* Content.save of a new revision of the page of instance o
ContentSave(o, lang, ctype, body, date) ==
    LET page == objs[o]
    IN  /\ page.id \in DOMAIN pages
        /\ cache' = InvalidatedCache(cache, page.id)
        /\ objs' = [objs EXCEPT ![o] = InvalidatedPage(page)]
        /\ contents' = contents \cup {[page |-> page.id, language |-> lang, type |-> ctype,
                                       body |-> body, creation_date |-> date]}
        /\ ret' = [op |-> "content_save", obj |-> o, held |-> Held(page, page.id),
                   revision |-> [page |-> page.id, language |-> lang, type |-> ctype,
                                 body |-> body, creation_date |-> date]]
        /\ UNCHANGED <<now, settings, pages>>

-----------------------------------------------------------------------------
(* The first root and the complete slug *)

\* Page.objects.root(): the pages without parent, in Meta.ordering
root == Ordered({q \in DOMAIN pages : pages[q].parent = None})

Str(b) == IF b THEN "True" ELSE "False"

\* a mutant of is_first_root: on a miss the key is set to the asking root
is_first_root_own_key(self) ==
    IF self.parent # None
    THEN [value |-> FALSE, memo |-> self._is_first_root, key |-> cache.GERBI_FIRST_ROOT_ID]
    ELSE IF self._is_first_root # "None"
    THEN [value |-> self._is_first_root = "True", memo |-> self._is_first_root,
          key |-> cache.GERBI_FIRST_ROOT_ID]
    ELSE IF cache.GERBI_FIRST_ROOT_ID # None
    THEN [value |-> cache.GERBI_FIRST_ROOT_ID = self.id,
          memo |-> Str(cache.GERBI_FIRST_ROOT_ID = self.id),
          key |-> cache.GERBI_FIRST_ROOT_ID]
    ELSE LET first_root_id == IF root = <<>> THEN None ELSE root[1]
         IN  [value |-> self.id = first_root_id, memo |-> Str(self.id = first_root_id),
              key |-> self.id]

\* Page.is_first_root: the value returned, the _is_first_root it leaves on the
\* instance and the GERBI_FIRST_ROOT_ID it leaves in the shared cache
is_first_root(self) ==
    IF self.parent # None
    THEN [value |-> FALSE, memo |-> self._is_first_root, key |-> cache.GERBI_FIRST_ROOT_ID]
    ELSE IF self._is_first_root # "None"
    THEN [value |-> self._is_first_root = "True", memo |-> self._is_first_root,
          key |-> cache.GERBI_FIRST_ROOT_ID]
    ELSE IF cache.GERBI_FIRST_ROOT_ID # None
    THEN [value |-> cache.GERBI_FIRST_ROOT_ID = self.id,
          memo |-> Str(cache.GERBI_FIRST_ROOT_ID = self.id),
          key |-> cache.GERBI_FIRST_ROOT_ID]
    ELSE LET first_root_id == IF root = <<>> THEN None ELSE root[1]
         IN  [value |-> self.id = first_root_id, memo |-> Str(self.id = first_root_id),
              key |-> first_root_id]

IsFirstRoot(o) ==
    /\ objs' = [objs EXCEPT ![o]._is_first_root = is_first_root(objs[o]).memo]
    /\ cache' = [cache EXCEPT !.GERBI_FIRST_ROOT_ID = is_first_root(objs[o]).key]
    /\ ret' = [op |-> "is_first_root", obj |-> o, value |-> is_first_root(objs[o]).value]
    /\ UNCHANGED <<now, settings, pages, contents>>

\* the languages after the first of the configured ones, in their order
RECURSIVE FirstWithContent(_, _, _)
FirstWithContent(languages, page, ctype) ==
    IF languages = <<>> THEN {}
    ELSE IF get_content_object(page, Head(languages), ctype) # {}
    THEN {c.body : c \in get_content_object(page, Head(languages), ctype)}
    ELSE FirstWithContent(Tail(languages), page, ctype)

\* Content.objects.get_content: the bodies it may return, none standing for None
get_content(page, language, ctype, language_fallback) ==
    LET lang == IF language = NoLanguage THEN GERBI_DEFAULT_LANGUAGE ELSE language
    IN  IF get_content_object(page, lang, ctype) # {}
        THEN {c.body : c \in get_content_object(page, lang, ctype)}
        ELSE IF language_fallback THEN FirstWithContent(GERBI_LANGUAGES, page, ctype)
        ELSE {}

\* Page.slug
slug(page, language) == get_content(page, language, "slug", TRUE)

\* for ancestor in self.get_ancestors(ascending=True): url = ancestor.slug(language) + u'/' + url
RECURSIVE WithAncestors(_, _, _)
WithAncestors(ancestors, language, urls) ==
    IF ancestors = <<>> THEN urls
    ELSE WithAncestors(Tail(ancestors), language,
                       {a \o "/" \o url : a \in slug(LoadedPage(Head(ancestors)), language),
                                          url \in urls})

\* the urls get_complete_slug may compute; u'%s' % None is u'None'
CompleteSlugs(self, language, hide) ==
    LET own == IF hide THEN {""}
               ELSE IF slug(self, language) = {} THEN {"None"}
               ELSE slug(self, language)
    IN  WithAncestors(get_ancestors(self.id, TRUE), language, own)

\* Page.get_complete_slug on an instance of a stored page
GetCompleteSlug(o, lang, hideroot) ==
    LET self == objs[o]
        language == IF lang = NoLanguage THEN GERBI_DEFAULT_LANGUAGE ELSE lang
        shared == cache.page_url[self.id]
        asked == hideroot /\ settings.GERBI_HIDE_ROOT_SLUG
        first == is_first_root(self)
        after == IF asked THEN [self EXCEPT !._is_first_root = first.memo] ELSE self
        start == IF shared = NoDict THEN EmptyDict ELSE shared
    IN  /\ self.id \in DOMAIN pages
        /\ IF Truthy(self._complete_slug) /\ language \in DOMAIN self._complete_slug
           THEN /\ ret' = [op |-> "get_complete_slug", obj |-> o, language |-> language,
                           hideroot |-> hideroot, value |-> self._complete_slug[language]]
                /\ UNCHANGED <<objs, cache>>
           ELSE IF shared # NoDict /\ language \in DOMAIN shared
           THEN /\ objs' = [objs EXCEPT ![o]._complete_slug = shared]
                /\ ret' = [op |-> "get_complete_slug", obj |-> o, language |-> language,
                           hideroot |-> hideroot, value |-> shared[language]]
                /\ UNCHANGED cache
           ELSE \E url \in CompleteSlugs(self, language, asked /\ first.value) :
                    LET dict == [l \in DOMAIN start \cup {language} |->
                                     IF l = language THEN url ELSE start[l]]
                    IN  /\ objs' = [objs EXCEPT ![o] = [after EXCEPT !._complete_slug = dict]]
                        /\ cache' = [cache EXCEPT
                                         !.page_url[self.id] = dict,
                                         !.GERBI_FIRST_ROOT_ID =
                                             IF asked THEN first.key ELSE @]
                        /\ ret' = [op |-> "get_complete_slug", obj |-> o,
                                   language |-> language, hideroot |-> hideroot,
                                   value |-> url]
        /\ UNCHANGED <<now, settings, pages, contents>>

-----------------------------------------------------------------------------
(* The collaborators of the cache specification *)

\* the link checker reports a broken link of a page
SetBrokenLink(p) ==
    /\ cache' = [cache EXCEPT !.page_broken_link[p] = "True"]
    /\ ret' = [op |-> "broken_link", page |-> p]
    /\ UNCHANGED <<now, settings, pages, contents, objs>>

\* an author sets the freeze date of an instance
SetFreezeDate(o, date) ==
    /\ objs' = [objs EXCEPT ![o].freeze_date = date]
    /\ ret' = [op |-> "edit", obj |-> o]
    /\ UNCHANGED <<now, settings, pages, contents, cache>>

\* a request loads a fresh instance of a page
Load(o, p) ==
    /\ objs' = [objs EXCEPT ![o] = LoadedPage(p)]
    /\ ret' = [op |-> "load", obj |-> o]
    /\ UNCHANGED <<now, settings, pages, contents, cache>>

-----------------------------------------------------------------------------
(* The cache specification: a saved page with its slug, the instance of it *)
(* that a request holds, and the revisions saved afterwards                *)

MaxRevisions == 1           \* revisions saved in the cache specification
MaxContentRevisions == 1    \* revisions saved in the content specification

SlugOf(p) == IF p = 1 THEN "home" ELSE IF p = 2 THEN "about" ELSE "team"

\* the slug revisions the pages 1..n were created with at time t
Slugs(n, t) ==
    {[page |-> p, language |-> GERBI_DEFAULT_LANGUAGE, type |-> "slug",
      body |-> SlugOf(p), creation_date |-> t] : p \in 1..n}

Init ==
    /\ now = 0
    /\ settings \in [GERBI_SHOW_START_DATE : {FALSE}, GERBI_SHOW_END_DATE : {FALSE},
                     GERBI_HIDE_ROOT_SLUG : BOOLEAN, GERBI_LANGUAGES : {<<"en", "fr">>}]
    /\ pages = Forest([i \in {1} |-> None], 1)
    /\ contents = Slugs(1, 0)
    /\ cache = EmptyCache
    /\ objs = [o \in {1} |-> [NewPage EXCEPT !.id = 1, !.last_modification_date = 0]]
    /\ ret = NoRet

Next ==
    \/ PageSave(1)
    \/ Invalidate(1)
    \/ \E lang \in Languages, ctype \in Types, body \in Bodies :
           /\ Cardinality(contents) < 1 + MaxRevisions
           /\ ContentSave(1, lang, ctype, body, now)
    \/ \E language \in Languages \cup {NoLanguage} : BuildCache(1, language)
    \/ GetLanguages(1)
    \/ IsFirstRoot(1)
    \/ \E language \in Languages \cup {NoLanguage}, hideroot \in BOOLEAN :
           GetCompleteSlug(1, language, hideroot)
    \/ SetBrokenLink(1)
    \/ Load(1, 1)

Spec == Init /\ [][Next]_vars

-----------------------------------------------------------------------------
(* The content specification: the revisions of one page saved over time, its *)
(* freeze date, and the content cache built from them                        *)

InitContent ==
    /\ now \in Times
    /\ settings = DefaultSettings
    /\ pages = [Forest([i \in {1} |-> None], 1) EXCEPT ![1].last_modification_date = now]
    /\ contents = Slugs(1, now)
    /\ cache = EmptyCache
    /\ objs = [o \in {1} |-> [NewPage EXCEPT !.id = 1, !.last_modification_date = now]]
    /\ ret = NoRet

NextContent ==
    \/ \E lang \in Languages, ctype \in Types, body \in Bodies, date \in 0..now :
           /\ Cardinality(contents) < 1 + MaxContentRevisions
           /\ ContentSave(1, lang, ctype, body, date)
    \/ \E language \in Languages \cup {NoLanguage} : BuildCache(1, language)
    \/ \E date \in Dates : SetFreezeDate(1, date)
    \/ Tick

SpecContent == InitContent /\ [][NextContent]_vars

-----------------------------------------------------------------------------
(* Claims on invalidation, under Spec *)

Absent(id) ==
    /\ cache.gerbi_page[id] = NoDict
    /\ cache.page_url[id] = NoDict
    /\ cache.GERBI_FIRST_ROOT_ID = None

\* C1 (as claimed): after Page.save of a page and after Content.save of one of
\* its revisions, the page's content cache key, URL key and broken-link flag
\* and the first-root key are all gone from the shared cache.
WritesInvalidateAllFour ==
    ret.op \in {"save", "content_save"} =>
        /\ Absent(objs[ret.obj].id)
        /\ cache.page_broken_link[objs[ret.obj].id] = "None"

\* C1 (amended): after Page.save all four are gone; after Content.save the
\* content cache key, the URL key and the first-root key are gone and the
\* broken-link flag is as it was before.
WritesInvalidate ==
    /\ ret.op = "save" =>
           /\ Absent(objs[ret.obj].id)
           /\ cache.page_broken_link[objs[ret.obj].id] = "None"
    /\ ret.op = "content_save" =>
           /\ Absent(objs[ret.obj].id)
           /\ cache.page_broken_link[objs[ret.obj].id] = ret.held.page_broken_link

\* C1 witness: a revision was saved while the shared cache held all four, and
\* the broken-link flag outlived it.
ContentSavedWithAllCached ==
    /\ ret.op = "content_save"
    /\ ret.held.gerbi_page
    /\ ret.held.page_url
    /\ ret.held.GERBI_FIRST_ROOT_ID
    /\ ret.held.page_broken_link = "True"
    /\ cache.page_broken_link[objs[ret.obj].id] = "True"

\* C2: Page.invalidate removes the page's content cache entry, its whole
\* language-to-path map and the first-root key from the shared cache and resets
\* the instance's memo of content, languages and path, so that a build for any
\* language queries the store again.
InvalidateClearsPage ==
    ret.op = "invalidate" =>
        LET self == objs[ret.obj]
        IN  /\ Absent(self.id)
            /\ self.cache = NoDict
            /\ self._languages = NoList
            /\ self._complete_slug = NoDict
            /\ NeededLanguages(self, NoLanguage) = Languages
            /\ \A lang \in Languages : NeededLanguages(self, lang) = {lang}

\* C2 witness: invalidate ran while the shared cache held the content, the
\* paths of every language and the first root, and the instance its memos.
InvalidatedWithAllCached ==
    /\ ret.op = "invalidate"
    /\ ret.held.gerbi_page
    /\ ret.held.languages = Languages
    /\ ret.held.GERBI_FIRST_ROOT_ID
    /\ ret.held.cache
    /\ ret.held._languages
    /\ ret.held._complete_slug

-----------------------------------------------------------------------------
(* Claims on content resolution, under SpecContent *)

\* the revisions of a page, language and type that a freeze date admits, and
\* the latest of them
Admitted(revisions, id, lang, ctype, freeze) ==
    {c \in revisions : /\ c.page = id
                       /\ c.language = lang
                       /\ c.type = ctype
                       /\ freeze \in Times => c.creation_date <= freeze}

LatestOf(revs) == {c \in revs : \A d \in revs : d.creation_date <= c.creation_date}

\* for every language build_cache queried and every type, the entry it stored
\* is the body and date of a latest admitted revision, and there is none when
\* no revision is admitted
BuildStoresLatest ==
    (ret.op = "build_cache" /\ ret.raised = "None") =>
        LET self == objs[ret.obj]
        IN  /\ self.cache = ret.value
            /\ ret.needed # {} => cache.gerbi_page[self.id] = ret.value
            /\ \A lang \in ret.needed, ctype \in Types :
                   LET revs == Admitted(contents, self.id, lang, ctype, self.freeze_date)
                   IN  /\ revs = {} => ctype \notin DOMAIN ret.value[lang]
                       /\ revs # {} =>
                              /\ ctype \in DOMAIN ret.value[lang]
                              /\ \E c \in LatestOf(revs) :
                                     ret.value[lang][ctype] =
                                         [body |-> c.body, creation_date |-> c.creation_date]

\* a revision saved with a date below that of the latest admitted one leaves
\* what a build resolves for its language and type as it was
LowerInsertKeepsLatest ==
    \A o \in DOMAIN objs, new \in contents' \ contents :
        LET revs == Admitted(contents, new.page, new.language, new.type,
                             objs[o].freeze_date)
        IN  (/\ ret'.op = "content_save"
             /\ objs[o].id = new.page
             /\ \E c \in revs : new.creation_date < c.creation_date) =>
                {d[new.type] : d \in LanguageDicts(objs[o], new.language)'}
                    = {d[new.type] : d \in LanguageDicts(objs[o], new.language)}

\* C3: the content the content-cache build stores for a page, language and type
\* is the body of the revision with the greatest creation date among those not
\* after the freeze date of the page when it has one, among all otherwise; and
\* saving a revision dated before the latest one does not change it.
BuildResolvesLatest == []BuildStoresLatest /\ [][LowerInsertKeepsLatest]_vars

\* C3 witness: a build under a freeze date stored the older body of a type
\* whose newest revision is dated after the freeze date.
BuiltUnderFreeze ==
    /\ ret.op = "build_cache"
    /\ objs[ret.obj].freeze_date \in Times
    /\ \E lang \in ret.needed, c \in contents :
           /\ c.language = lang
           /\ c.creation_date > objs[ret.obj].freeze_date
           /\ c.type \in DOMAIN ret.value[lang]
           /\ ret.value[lang][c.type].creation_date < c.creation_date
           /\ ret.value[lang][c.type].body # c.body

-----------------------------------------------------------------------------
(* The path specification: a forest of pages created with their slugs, and   *)
(* the requests that ask an instance for its complete slug                   *)

MaxSlugPages == 3       \* pages of a forest in the path specification

InitSlug ==
    /\ now = 0
    /\ settings \in [GERBI_SHOW_START_DATE : {FALSE}, GERBI_SHOW_END_DATE : {FALSE},
                     GERBI_HIDE_ROOT_SLUG : BOOLEAN, GERBI_LANGUAGES : {<<"en", "fr">>}]
    /\ \E n \in 1..MaxSlugPages : \E pv \in ParentVectors(n) :
           /\ pages = Forest(pv, n)
           /\ contents = Slugs(n, 0)
    /\ cache = EmptyCache
    /\ \E p \in DOMAIN pages : objs = [o \in {1} |-> LoadedPage(p)]
    /\ ret = NoRet

NextSlug ==
    \/ \E p \in DOMAIN pages : Load(1, p)
    \/ IsFirstRoot(1)
    \/ \E language \in Languages \cup {NoLanguage}, hideroot \in BOOLEAN :
           GetCompleteSlug(1, language, hideroot)

SpecSlug == InitSlug /\ [][NextSlug]_vars

\* the slugs from the root of the tree of a page down to the page, joined by
\* '/', without the slug of the first root when it is hidden
RECURSIVE SlugPath(_, _)
SlugPath(p, hidden) ==
    IF pages[p].parent = None
    THEN IF hidden /\ p = root[1] THEN "" ELSE SlugOf(p)
    ELSE LET above == SlugPath(pages[p].parent, hidden)
         IN  IF above = "" THEN SlugOf(p) ELSE above \o "/" \o SlugOf(p)

\* C11 (as claimed): get_complete_slug of a page is the slugs of its ancestors
\* and its own joined by '/', from the root down when GERBI_HIDE_ROOT_SLUG is
\* off and without the slug of the first root when it is on: for home > about
\* > team, "home/about/team" and "about/team".
CompleteSlugHidesFirstRoot ==
    (ret.op = "get_complete_slug" /\ ret.hideroot) =>
        ret.value = SlugPath(objs[ret.obj].id, settings.GERBI_HIDE_ROOT_SLUG)

-----------------------------------------------------------------------------
(* The resolution specification: one page under three configured languages,  *)
(* the revisions saved for it, and the requests that resolve its content     *)

MaxResolveRevisions == 2    \* revisions saved in the resolution specification

\* a mutant of GetContent: the fallback flag is not passed on
GetContent_no_fallback(o, language, ctype, language_fallback) ==
    LET self == objs[o]
        bodies == get_content(self, language, ctype, FALSE)
    IN  /\ self.id \in DOMAIN pages
        /\ IF bodies = {}
           THEN ret' = [op |-> "get_content", obj |-> o, language |-> language,
                        type |-> ctype, language_fallback |-> language_fallback,
                        found |-> FALSE, value |-> "None"]
           ELSE \E body \in bodies :
                    ret' = [op |-> "get_content", obj |-> o, language |-> language,
                            type |-> ctype, language_fallback |-> language_fallback,
                            found |-> TRUE, value |-> body]
        /\ UNCHANGED <<now, settings, pages, contents, cache, objs>>

\* Page.get_content; found is FALSE when it returns None
GetContent(o, language, ctype, language_fallback) ==
    LET self == objs[o]
        bodies == get_content(self, language, ctype, language_fallback)
    IN  /\ self.id \in DOMAIN pages
        /\ IF bodies = {}
           THEN ret' = [op |-> "get_content", obj |-> o, language |-> language,
                        type |-> ctype, language_fallback |-> language_fallback,
                        found |-> FALSE, value |-> "None"]
           ELSE \E body \in bodies :
                    ret' = [op |-> "get_content", obj |-> o, language |-> language,
                            type |-> ctype, language_fallback |-> language_fallback,
                            found |-> TRUE, value |-> body]
        /\ UNCHANGED <<now, settings, pages, contents, cache, objs>>

\* Page.slug(language, fallback)
Slug(o, language, fallback) == GetContent(o, language, "slug", fallback)

InitResolve ==
    /\ now = 0
    /\ settings = [DefaultSettings EXCEPT !.GERBI_LANGUAGES = <<"en", "fr", "de">>]
    /\ pages = Forest([i \in {1} |-> None], 1)
    /\ contents = Slugs(1, 0)
    /\ cache = EmptyCache
    /\ objs = [o \in {1} |-> LoadedPage(1)]
    /\ ret = NoRet

NextResolve ==
    \/ \E lang \in Languages, ctype \in Types, body \in Bodies :
           /\ Cardinality(contents) < 1 + MaxResolveRevisions
           /\ ContentSave(1, lang, ctype, body, now)
    \/ \E language \in Languages \cup {NoLanguage}, ctype \in Types,
          language_fallback \in BOOLEAN :
           GetContent(1, language, ctype, language_fallback)
    \/ \E language \in Languages \cup {NoLanguage}, fallback \in BOOLEAN :
           Slug(1, language, fallback)
    \/ Tick

SpecResolve == InitResolve /\ [][NextResolve]_vars

\* the revisions of a page in a language and type, and the configured
\* languages that have some, in their configured order
RevisionsIn(id, lang, ctype) ==
    {c \in contents : c.page = id /\ c.language = lang /\ c.type = ctype}

LanguagesWith(id, ctype) ==
    SelectSeq(GERBI_LANGUAGES, LAMBDA lang : RevisionsIn(id, lang, ctype) # {})

\* C12: resolving a type of a page for a language in which the page has no
\* revision of that type returns None when fallback is not allowed or no
\* configured language has one, and with fallback the body of the latest
\* revision in the first language of the configured list that has one.
FallbackResolvesFirstLanguage ==
    ret.op = "get_content" =>
        LET id == objs[ret.obj].id
            lang == IF ret.language = NoLanguage THEN GERBI_DEFAULT_LANGUAGE ELSE ret.language
            with == LanguagesWith(id, ret.type)
        IN  RevisionsIn(id, lang, ret.type) = {} =>
                /\ ~ret.language_fallback => ~ret.found
                /\ (ret.language_fallback /\ with = <<>>) => ~ret.found
                /\ (ret.language_fallback /\ with # <<>>) =>
                       /\ ret.found
                       /\ \E c \in LatestOf(RevisionsIn(id, with[1], ret.type)) :
                              ret.value = c.body

\* C12 witness: with titles in "fr" and "de" only, the title asked for in "en"
\* with fallback came back as the "fr" one, which differs from the "de" one.
FellBackPastDefault ==
    /\ ret.op = "get_content"
    /\ ret.language = "en"
    /\ ret.type = "title"
    /\ ret.language_fallback
    /\ ret.found
    /\ \E f \in RevisionsIn(objs[ret.obj].id, "fr", "title"),
          d \in RevisionsIn(objs[ret.obj].id, "de", "title") :
           f.body = ret.value /\ d.body # ret.value

-----------------------------------------------------------------------------
(* Structural writes: MPTT's move_to and delete, which Page inherits from    *)
(* MPTTModel, and Page.valid_targets                                         *)

\* a mutant of ManageSpace: the right bounds stay where they are
ManageSpace_left_only(P, size, target, tree) ==
    [q \in DOMAIN P |->
        IF P[q].tree_id # tree THEN P[q]
        ELSE [P[q] EXCEPT !.lft = IF @ > target THEN @ + size ELSE @]]

\* TreeManager._manage_space: the bounds of a tree above target move by size
ManageSpace(P, size, target, tree) ==
    [q \in DOMAIN P |->
        IF P[q].tree_id # tree THEN P[q]
        ELSE [P[q] EXCEPT !.lft = IF @ > target THEN @ + size ELSE @,
                          !.rght = IF @ > target THEN @ + size ELSE @]]

\* TreeManager._get_next_tree_id
NextTreeId(P) ==
    IF DOMAIN P = {} THEN 1
    ELSE 1 + (CHOOSE t \in {P[q].tree_id : q \in DOMAIN P} :
                  \A q \in DOMAIN P : P[q].tree_id <= t)

\* TreeManager._inter_tree_move_and_close_gap: the subtree of node goes to
\* another tree and the gap it leaves in its own is closed
InterTreeMoveAndCloseGap(P, node, level_change, left_right_change, new_tree_id, parent_pk) ==
    LET n == P[node]
        gap_size == n.rght - n.lft + 1
        gap_target_left == n.lft - 1
    IN  [q \in DOMAIN P |->
            IF P[q].tree_id # n.tree_id THEN P[q]
            ELSE LET r == P[q]
                     inl == r.lft >= n.lft /\ r.lft <= n.rght
                     inr == r.rght >= n.lft /\ r.rght <= n.rght
                 IN  [r EXCEPT
                         !.level = IF inl THEN @ - level_change ELSE @,
                         !.tree_id = IF inl THEN new_tree_id ELSE @,
                         !.lft = IF inl THEN @ - left_right_change
                                 ELSE IF @ > gap_target_left THEN @ - gap_size ELSE @,
                         !.rght = IF inr THEN @ - left_right_change
                                  ELSE IF @ > gap_target_left THEN @ - gap_size ELSE @,
                         !.parent = IF q = node THEN parent_pk ELSE @]]

\* TreeManager._calculate_inter_tree_move_values
CalculateInterTreeMoveValues(P, node, target, position) ==
    LET child == position \in {"first-child", "last-child"}
        space_target == IF position = "last-child" THEN P[target].rght - 1
                        ELSE IF position = "first-child" THEN P[target].lft
                        ELSE IF position = "left" THEN P[target].lft - 1
                        ELSE P[target].rght
    IN  [space_target |-> space_target,
         level_change |-> IF child THEN P[node].level - P[target].level - 1
                          ELSE P[node].level - P[target].level,
         left_right_change |-> P[node].lft - space_target - 1,
         parent |-> IF child THEN target ELSE P[target].parent]

\* TreeManager._make_child_root_node
MakeChildRootNode(P, node) ==
    InterTreeMoveAndCloseGap(P, node, P[node].level, P[node].lft - 1, NextTreeId(P), None)

\* TreeManager._move_child_to_new_tree
MoveChildToNewTree(P, node, target, position) ==
    LET v == CalculateInterTreeMoveValues(P, node, target, position)
        tree_width == P[node].rght - P[node].lft + 1
        spaced == ManageSpace(P, tree_width, v.space_target, P[target].tree_id)
    IN  InterTreeMoveAndCloseGap(spaced, node, v.level_change, v.left_right_change,
                                 P[target].tree_id, v.parent)

\* TreeManager._move_root_node, past its checks
MoveRootNode(P, node, target, position) ==
    LET v == CalculateInterTreeMoveValues(P, node, target, position)
        width == P[node].rght - P[node].lft + 1
        spaced == ManageSpace(P, width, v.space_target, P[target].tree_id)
    IN  [q \in DOMAIN P |->
            IF P[q].tree_id # P[node].tree_id THEN spaced[q]
            ELSE [P[q] EXCEPT !.level = @ - v.level_change,
                              !.lft = @ - v.left_right_change,
                              !.rght = @ - v.left_right_change,
                              !.tree_id = P[target].tree_id,
                              !.parent = IF q = node THEN v.parent ELSE @]]

\* TreeManager._move_child_within_tree, past its checks
MoveChildWithinTree(P, node, target, position) ==
    LET left == P[node].lft
        right == P[node].rght
        width == right - left + 1
        target_left == P[target].lft
        target_right == P[target].rght
        child == position \in {"first-child", "last-child"}
        new_left ==
            IF position = "last-child"
            THEN IF target_right > right THEN target_right - width ELSE target_right
            ELSE IF position = "first-child"
            THEN IF target_left > left THEN target_left - width + 1 ELSE target_left + 1
            ELSE IF position = "left"
            THEN IF target_left > left THEN target_left - width ELSE target_left
            ELSE IF target_right > right THEN target_right - width + 1 ELSE target_right + 1
        new_right == new_left + width - 1
        level_change == IF child THEN P[node].level - P[target].level - 1
                        ELSE P[node].level - P[target].level
        parent == IF child THEN target ELSE P[target].parent
        left_boundary == IF left < new_left THEN left ELSE new_left
        right_boundary == IF right > new_right THEN right ELSE new_right
        left_right_change == new_left - left
        gap_size == IF left_right_change > 0 THEN 0 - width ELSE width
    IN  [q \in DOMAIN P |->
            IF P[q].tree_id # P[node].tree_id THEN P[q]
            ELSE LET r == P[q]
                     inl == r.lft >= left /\ r.lft <= right
                     inr == r.rght >= left /\ r.rght <= right
                 IN  [r EXCEPT
                         !.level = IF inl THEN @ - level_change ELSE @,
                         !.lft = IF inl THEN @ + left_right_change
                                 ELSE IF @ >= left_boundary /\ @ <= right_boundary
                                 THEN @ + gap_size ELSE @,
                         !.rght = IF inr THEN @ + left_right_change
                                  ELSE IF @ >= left_boundary /\ @ <= right_boundary
                                  THEN @ + gap_size ELSE @,
                         !.parent = IF q = node THEN parent ELSE @]]

\* the moves TreeManager.move_node refuses with InvalidMove before any update:
\* onto the node itself, and, in _move_root_node and _move_child_within_tree,
\* onto a node of its own subtree
InvalidMove(P, node, target) ==
    /\ target # None
    /\ \/ node = target
       \/ /\ P[node].tree_id = P[target].tree_id
          /\ \/ P[node].parent = None
             \/ P[node].lft < P[target].lft /\ P[target].lft < P[node].rght

\* TreeManager.move_node, past its checks
move_node(P, node, target, position) ==
    IF target = None
    THEN IF P[node].parent # None THEN MakeChildRootNode(P, node) ELSE P
    ELSE IF P[node].parent = None THEN MoveRootNode(P, node, target, position)
    ELSE IF P[node].tree_id = P[target].tree_id
    THEN MoveChildWithinTree(P, node, target, position)
    ELSE MoveChildToNewTree(P, node, target, position)

Positions == {"first-child", "last-child", "left", "right"}

\* the parent a move asks for: the target, or the parent of the target when
\* the node is to become its sibling
AskedParent(P, target, position) ==
    IF target = None THEN None
    ELSE IF position \in {"first-child", "last-child"} THEN target
    ELSE P[target].parent

\* MPTTModel.move_to on the instance of a stored page; a move that goes
\* through leaves the new parent on the instance
MoveTo(o, target, position) ==
    LET node == objs[o].id
    IN  /\ node \in DOMAIN pages
        /\ IF InvalidMove(pages, node, target)
           THEN /\ pages' = pages
                /\ objs' = objs
                /\ ret' = [op |-> "move_to", obj |-> o,
                           parent |-> AskedParent(pages, target, position),
                           raised |-> "InvalidMove"]
           ELSE /\ pages' = move_node(pages, node, target, position)
                /\ objs' = [objs EXCEPT ![o].parent = pages'[node].parent]
                /\ ret' = [op |-> "move_to", obj |-> o,
                           parent |-> AskedParent(pages, target, position),
                           raised |-> "None"]
        /\ UNCHANGED <<now, settings, contents, cache>>

\* the rows a delete of node removes: its own and, by the cascade over the
\* parent reference, those of its descendants
Cascade(P, node) ==
    {q \in DOMAIN P : /\ P[q].tree_id = P[node].tree_id
                      /\ P[q].lft >= P[node].lft
                      /\ P[q].lft <= P[node].rght}

\* MPTTModel.delete: the gap of the subtree is closed, then the rows go
DeletedRows(P, node) ==
    LET tree_width == P[node].rght - P[node].lft + 1
        closed == ManageSpace(P, 0 - tree_width, P[node].rght, P[node].tree_id)
    IN  [q \in DOMAIN P \ Cascade(P, node) |-> closed[q]]

\* Page.delete, which Page does not override, on the instance of a stored page
Delete(o) ==
    LET node == objs[o].id
    IN  /\ node \in DOMAIN pages
        /\ pages' = DeletedRows(pages, node)
        /\ contents' = {c \in contents : c.page \notin Cascade(pages, node)}
        /\ ret' = [op |-> "delete", obj |-> o]
        /\ UNCHANGED <<now, settings, cache, objs>>

\* a mutant of valid_targets: the descendants are not excluded
valid_targets_self_only(id) ==
    Ordered(DOMAIN pages \ {id})

\* Page.valid_targets
valid_targets(id) ==
    LET descendants == get_descendants(id)
        exclude_list == {id} \cup {descendants[i] : i \in 1..Len(descendants)}
    IN  Ordered(DOMAIN pages \ exclude_list)

ValidTargets(o) ==
    /\ objs[o].id \in DOMAIN pages
    /\ ret' = [op |-> "valid_targets", obj |-> o, value |-> valid_targets(objs[o].id)]
    /\ UNCHANGED <<now, settings, pages, contents, cache, objs>>

\* Page(parent=...): a new instance, not saved yet
NewInstance(o, parent) ==
    /\ objs' = [objs EXCEPT ![o] = [NewPage EXCEPT !.parent = parent]]
    /\ ret' = [op |-> "new", obj |-> o]
    /\ UNCHANGED <<now, settings, pages, contents, cache>>

-----------------------------------------------------------------------------
(* The tree specification: a forest that grows, is rearranged and shrinks,   *)
(* and the requests that ask for the first root and the targets of a move    *)

MaxTreePages == 3       \* pages of a forest in the tree specification
MaxTreeId == 4          \* tree ids handed out in the tree specification

InitTree ==
    /\ now = 0
    /\ settings = DefaultSettings
    /\ \E n \in 1..MaxTreePages : \E pv \in ParentVectors(n) : pages = Forest(pv, n)
    /\ contents = {}
    /\ cache = EmptyCache
    /\ \E p \in DOMAIN pages : objs = [o \in {1} |-> LoadedPage(p)]
    /\ ret = NoRet

NextTree ==
    \/ \E parent \in DOMAIN pages \cup {None} : NewInstance(1, parent)
    \/ /\ objs[1].id = None =>
              /\ Cardinality(DOMAIN pages) < MaxTreePages
              /\ objs[1].parent \in DOMAIN pages \cup {None}
              /\ objs[1].parent = None => NextTreeId(pages) <= MaxTreeId
       /\ PageSave(1)
    \/ \E target \in DOMAIN pages \cup {None}, position \in Positions :
           /\ target = None => NextTreeId(pages) <= MaxTreeId
           /\ (target # None /\ position \in {"left", "right"}) => pages[target].parent # None
           /\ MoveTo(1, target, position)
    \/ Delete(1)
    \/ ValidTargets(1)
    \/ \E p \in DOMAIN pages : Load(1, p)

SpecTree == InitTree /\ [][NextTree]_vars

\* the pages of the subtree of a page, from the parent references
SubtreeOf(p) == {Prefix(<<p>>)[i] : i \in 1..Len(Prefix(<<p>>))}

AncestorsOf(p) == {a \in DOMAIN pages \ {p} : p \in SubtreeOf(a)}

RejectedMoveKeepsTree ==
    (/\ ret'.op = "move_to"
     /\ ret'.parent # None
     /\ ret'.parent \in SubtreeOf(objs[ret'.obj].id))
        => (ret'.raised = "InvalidMove" /\ pages' = pages)

\* valid_targets returns the pages that are neither the page nor one of its
\* descendants
ValidTargetsExcludeSubtree ==
    ret.op = "valid_targets" =>
        {ret.value[i] : i \in 1..Len(ret.value)} = DOMAIN pages \ SubtreeOf(objs[ret.obj].id)

\* C14: a move that would make a page a child of itself or of one of its
\* descendants is refused before any bound changes and leaves the tree as it
\* was; valid_targets of a page holds every page of the forest but the page
\* and its descendants.
MoveUnderSelfRejected == []ValidTargetsExcludeSubtree /\ [][RejectedMoveKeepsTree]_vars

\* C14 witness: a move of a page under one of its descendants was refused.
MoveUnderDescendantRefused ==
    /\ ret.op = "move_to"
    /\ ret.raised = "InvalidMove"
    /\ ret.parent # None
    /\ ret.parent # objs[ret.obj].id
    /\ ret.parent \in SubtreeOf(objs[ret.obj].id)

-----------------------------------------------------------------------------
(* The copy specification: an instance of a stored page that is given no id  *)
(* (page.id = None) to be saved as a new page, and the builds asked of it    *)

MaxCopies == 2          \* pages saved from the instance in the copy specification

\* page.id = None: the instance keeps its fields and memos and loses its id
ClearId(o) ==
    /\ objs[o].id # None
    /\ objs' = [objs EXCEPT ![o].id = None]
    /\ ret' = [op |-> "edit", obj |-> o]
    /\ UNCHANGED <<now, settings, pages, contents, cache>>

InitCopy ==
    /\ now = 0
    /\ settings = DefaultSettings
    /\ pages = Forest([i \in {1} |-> None], 1)
    /\ contents = Slugs(1, 0)
    /\ cache = EmptyCache
    /\ objs = [o \in {1} |-> LoadedPage(1)]
    /\ ret = NoRet

NextCopy ==
    \/ \E language \in Languages \cup {NoLanguage} : BuildCache(1, language)
    \/ ClearId(1)
    \/ /\ objs[1].id = None => Cardinality(DOMAIN pages) < 1 + MaxCopies
       /\ PageSave(1)
    \/ \E p \in DOMAIN pages : Load(1, p)

SpecCopy == InitCopy /\ [][NextCopy]_vars

\* a build asked of an instance without id raises, and the step changes
\* neither the shared cache nor the instance
UnsavedBuildStep ==
    (ret'.op = "build_cache" /\ objs[ret'.obj].id = None)
        => (ret'.raised = "ValueError" /\ cache' = cache /\ objs' = objs)

\* C15: build_cache of a page without id raises ValueError and leaves the
\* shared cache and the content memo of the instance as they were; a build
\* that raised has changed neither.
UnsavedBuildRaises ==
    [][/\ UnsavedBuildStep
       /\ (ret'.op = "build_cache" /\ ret'.raised = "ValueError")
              => (cache' = cache /\ objs' = objs /\ objs[ret'.obj].id = None)]_vars

\* C15 witness: a build raised on an instance that holds a content memo while
\* the shared cache holds the content of the page it was loaded from.
UnsavedBuildRaisedWithMemo ==
    /\ ret.op = "build_cache"
    /\ ret.raised = "ValueError"
    /\ objs[ret.obj].id = None
    /\ Truthy(objs[ret.obj].cache)
    /\ \E p \in DOMAIN pages : Truthy(cache.gerbi_page[p])

-----------------------------------------------------------------------------
(* Concurrent workers: each holds its own instance of a page and is at some  *)
(* statement of the method it runs; the shared cache and the tables are      *)
(* read and written one call at a time                                       *)

NoRevision ==
    [page |-> None, language |-> "", type |-> "", body |-> "", creation_date |-> None]

\* the fields a worker keeps next to its instance: where it is (pc), the
\* arguments and locals of the call it runs (gone when it returns), and for a
\* writer two notes kept
\* for the claims: whether a build ran while its last save did (overlapped)
\* and whether the shared content cache was out of date when it began (stale)
WorkerLocals ==
    [pc |-> "idle", language |-> NoLanguage, needed |-> {}, url |-> "",
     revision |-> NoRevision, overlapped |-> FALSE, stale |-> FALSE]

Worker(page, role) ==
    [f \in DOMAIN page \cup DOMAIN WorkerLocals \cup {"role"} |->
        IF f = "role" THEN role
        ELSE IF f \in DOMAIN page THEN page[f] ELSE WorkerLocals[f]]

\* a step of a build taken while a writer is inside a save is noted on the writer
Noted(workers) ==
    [w \in DOMAIN workers |->
        IF workers[w].role = "writer" /\ workers[w].pc # "idle"
        THEN [workers[w] EXCEPT !.overlapped = TRUE]
        ELSE workers[w]]

\* a request loads the page and calls build_cache(language)
BuildBegin(o, p, language) ==
    /\ objs[o].pc = "idle"
    /\ objs' = Noted([objs EXCEPT ![o] =
                  [Worker(LoadedPage(p), objs[o].role) EXCEPT !.pc = "build_get",
                                                              !.language = language]])
    /\ ret' = [op |-> "begin", obj |-> o]
    /\ UNCHANGED <<now, settings, pages, contents, cache>>

\* self.cache = self.cache or cache.get(key); if self.cache is None: self.cache = {}
BuildGet(o) ==
    LET self == objs[o]
    IN  /\ self.pc = "build_get"
        /\ objs' = Noted([objs EXCEPT
                      ![o].cache = IF MemoOrShared(self) = NoDict THEN EmptyDict
                                   ELSE MemoOrShared(self),
                      ![o].pc = "build_query"])
        /\ ret' = [op |-> "step", obj |-> o]
        /\ UNCHANGED <<now, settings, pages, contents, cache>>

\* needed_languages, from the dict that self.cache holds by then
NeededFrom(start, language) ==
    LET languages == IF language # NoLanguage THEN {language} ELSE Languages
    IN  languages \ DOMAIN start

\* what the loop of build_cache may compute for them
BuildsFrom(page, start, language) ==
    LET needed == NeededFrom(start, language)
        all == UNION {LanguageDicts(page, lang) : lang \in needed}
    IN  {built \in [needed -> all] : \A lang \in needed : built[lang] \in LanguageDicts(page, lang)}

\* the loop of build_cache over the languages self.cache lacks
BuildQuery(o) ==
    LET self == objs[o]
    IN  /\ self.pc = "build_query"
        /\ \E built \in BuildsFrom(self, self.cache, self.language) :
               objs' = Noted([objs EXCEPT
                           ![o].cache = [lang \in DOMAIN self.cache \cup DOMAIN built |->
                                            IF lang \in DOMAIN built THEN built[lang]
                                            ELSE self.cache[lang]],
                           ![o].needed = DOMAIN built,
                           ![o].pc = "build_set"])
        /\ ret' = [op |-> "step", obj |-> o]
        /\ UNCHANGED <<now, settings, pages, contents, cache>>

\* if len(needed_languages): cache.set(key, self.cache); return self.cache
BuildSet(o) ==
    LET self == objs[o]
    IN  /\ self.pc = "build_set"
        /\ cache' = IF self.needed # {}
                    THEN [cache EXCEPT !.gerbi_page[self.id] = self.cache]
                    ELSE cache
        /\ objs' = Noted([objs EXCEPT ![o].pc = "idle", ![o].language = NoLanguage,
                                      ![o].needed = {}])
        /\ ret' = [op |-> "build_cache", obj |-> o, language |-> self.language,
                   needed |-> self.needed, value |-> self.cache, raised |-> "None"]
        /\ UNCHANGED <<now, settings, pages, contents>>

\* Content.save, first statement: self.page.invalidate(), for a revision made
\* once the clock has moved past every stored one
SaveInvalidate(o, lang, ctype, body) ==
    LET page == objs[o]
    IN  /\ page.pc = "idle"
        /\ page.id \in DOMAIN pages
        /\ \A c \in contents : c.creation_date < now
        /\ cache' = InvalidatedCache(cache, page.id)
        /\ objs' = [objs EXCEPT ![o] =
                       [InvalidatedPage(page) EXCEPT
                            !.pc = "save_insert",
                            !.revision = [page |-> page.id, language |-> lang, type |-> ctype,
                                          body |-> body, creation_date |-> now],
                            !.overlapped = \E r \in DOMAIN objs : r # o /\ objs[r].pc # "idle",
                            !.stale = ~(\A l \in DOMAIN cache.gerbi_page[page.id] :
                                            \/ cache.gerbi_page[page.id] = NoDict
                                            \/ cache.gerbi_page[page.id][l]
                                                   \in LanguageDicts(LoadedPage(page.id), l))]]
        /\ ret' = [op |-> "step", obj |-> o]
        /\ UNCHANGED <<now, settings, pages, contents>>

\* Content.save, second statement: super(Content, self).save()
SaveInsert(o) ==
    /\ objs[o].pc = "save_insert"
    /\ contents' = contents \cup {objs[o].revision}
    /\ objs' = [objs EXCEPT ![o].pc = "idle"]
    /\ ret' = [op |-> "content_save", obj |-> o, revision |-> objs[o].revision]
    /\ UNCHANGED <<now, settings, pages, cache>>

\* Page.save up to super(Page, self).save(): the fields are normalised, the
\* broken-link flag is deleted and the row is written
SaveRow(o) ==
    LET self == objs[o]
        normal == [self EXCEPT
                       !.status = SavedStatus(self.status),
                       !.publication_date =
                           SavedPublicationDate(self.status, self.publication_date, now),
                       !.last_modification_date = now]
    IN  /\ self.pc = "idle"
        /\ self.id \in DOMAIN pages
        /\ pages' = SavedRows(normal, self.id)
        /\ cache' = BrokenLinkDeleted(cache, self.id)
        /\ objs' = [objs EXCEPT ![o] =
                       [normal EXCEPT
                            !.pc = "save_invalidate",
                            !.overlapped = \E r \in DOMAIN objs : r # o /\ objs[r].pc # "idle",
                            !.stale = ~(\A l \in DOMAIN cache.gerbi_page[self.id] :
                                            \/ cache.gerbi_page[self.id] = NoDict
                                            \/ cache.gerbi_page[self.id][l]
                                                   \in LanguageDicts(LoadedPage(self.id), l))]]
        /\ ret' = [op |-> "step", obj |-> o]
        /\ UNCHANGED <<now, settings, contents>>

\* Page.save, the statement after it: self.invalidate()
SaveThenInvalidate(o) ==
    /\ objs[o].pc = "save_invalidate"
    /\ cache' = InvalidatedCache(cache, objs[o].id)
    /\ objs' = [objs EXCEPT ![o] = [InvalidatedPage(objs[o]) EXCEPT !.pc = "idle"]]
    /\ ret' = [op |-> "save", obj |-> o]
    /\ UNCHANGED <<now, settings, pages, contents>>

-----------------------------------------------------------------------------
(* The race specification: one worker saves revisions of a page while        *)
(* another builds its content cache                                          *)

MaxRaceRevisions == 1   \* revisions saved in the race specification

InitRace ==
    /\ now = 0
    /\ settings = DefaultSettings
    /\ pages = Forest([i \in {1} |-> None], 1)
    /\ contents = Slugs(1, 0)
    /\ cache = EmptyCache
    /\ objs = [o \in {1, 2} |-> Worker(LoadedPage(1), IF o = 1 THEN "reader" ELSE "writer")]
    /\ ret = NoRet

NextRace ==
    \/ \E language \in Languages \cup {NoLanguage} : BuildBegin(1, 1, language)
    \/ BuildGet(1)
    \/ BuildQuery(1)
    \/ BuildSet(1)
    \/ \E lang \in Languages, ctype \in Types, body \in Bodies :
           /\ Cardinality(contents) < 1 + MaxRaceRevisions
           /\ SaveInvalidate(2, lang, ctype, body)
    \/ SaveInsert(2)
    \/ SaveRow(2)
    \/ SaveThenInvalidate(2)
    \/ Tick

SpecRace == InitRace /\ [][NextRace]_vars

\* the shared content cache of a page holds nothing, or for each language it
\* holds what a build from the store computes
CacheCurrent(id) ==
    \/ cache.gerbi_page[id] = NoDict
    \/ \A lang \in DOMAIN cache.gerbi_page[id] :
           cache.gerbi_page[id][lang] \in LanguageDicts(LoadedPage(id), lang)

\* C16: a build that overlaps a save can leave the shared content cache older
\* than the store, and no longer than until the next save of the page: once a
\* save has completed that no build overlapped, the shared cache holds nothing
\* or what the store holds, and a build that returns gives the store's data.
CleanSaveEndsStaleness ==
    \A w \in DOMAIN objs :
        (objs[w].role = "writer" /\ objs[w].pc = "idle" /\ ~objs[w].overlapped) =>
            /\ CacheCurrent(objs[w].id)
            /\ ret.op = "build_cache" =>
                   \A lang \in DOMAIN ret.value :
                       ret.value[lang] \in LanguageDicts(LoadedPage(objs[ret.obj].id), lang)

\* C16 witness: a save that no build overlapped has completed after it found
\* the shared cache older than the store, and a build has since returned.
StaleEndedBySave ==
    /\ ret.op = "build_cache"
    /\ \E w \in DOMAIN objs :
           /\ objs[w].role = "writer"
           /\ objs[w].pc = "idle"
           /\ ~objs[w].overlapped
           /\ objs[w].stale
           /\ cache.gerbi_page[objs[w].id] # NoDict

-----------------------------------------------------------------------------
(* Page.get_complete_slug by a worker, one call to the shared cache at a time *)

\* a request loads the page and calls get_complete_slug(language)
SlugBegin(o, p, lang) ==
    /\ objs[o].pc = "idle"
    /\ objs' = Noted([objs EXCEPT ![o] =
                  [Worker(LoadedPage(p), objs[o].role) EXCEPT
                       !.pc = "slug_get",
                       !.language = IF lang = NoLanguage THEN GERBI_DEFAULT_LANGUAGE
                                    ELSE lang]])
    /\ ret' = [op |-> "begin", obj |-> o]
    /\ UNCHANGED <<now, settings, pages, contents, cache>>

\* the memo, then self._complete_slug = cache.get(key): return on a hit
SlugGet(o) ==
    LET self == objs[o]
        shared == cache.page_url[self.id]
    IN  /\ self.pc = "slug_get"
        /\ IF Truthy(self._complete_slug) /\ self.language \in DOMAIN self._complete_slug
           THEN /\ objs' = Noted([objs EXCEPT ![o].pc = "idle", ![o].language = NoLanguage])
                /\ ret' = [op |-> "get_complete_slug", obj |-> o, language |-> self.language,
                           hideroot |-> TRUE, value |-> self._complete_slug[self.language]]
           ELSE IF shared # NoDict /\ self.language \in DOMAIN shared
           THEN /\ objs' = Noted([objs EXCEPT ![o]._complete_slug = shared, ![o].pc = "idle",
                                              ![o].language = NoLanguage])
                /\ ret' = [op |-> "get_complete_slug", obj |-> o, language |-> self.language,
                           hideroot |-> TRUE, value |-> shared[self.language]]
           ELSE /\ objs' = Noted([objs EXCEPT
                               ![o]._complete_slug = IF shared = NoDict THEN EmptyDict
                                                     ELSE shared,
                               ![o].pc = "slug_compute"])
                /\ ret' = [op |-> "step", obj |-> o]
        /\ UNCHANGED <<now, settings, pages, contents, cache>>

\* the url from the page's slug, or u'' for the hidden first root, and the
\* slugs of its ancestors
SlugCompute(o) ==
    LET self == objs[o]
        asked == settings.GERBI_HIDE_ROOT_SLUG
        first == is_first_root(self)
        after == IF asked THEN [self EXCEPT !._is_first_root = first.memo] ELSE self
    IN  /\ self.pc = "slug_compute"
        /\ \E url \in CompleteSlugs(self, self.language, asked /\ first.value) :
               objs' = Noted([objs EXCEPT ![o] = [after EXCEPT !.url = url,
                                                               !.pc = "slug_set"]])
        /\ cache' = [cache EXCEPT !.GERBI_FIRST_ROOT_ID = IF asked THEN first.key ELSE @]
        /\ ret' = [op |-> "step", obj |-> o]
        /\ UNCHANGED <<now, settings, pages, contents>>

\* self._complete_slug[language] = url; cache.set(key, self._complete_slug)
SlugSet(o) ==
    LET self == objs[o]
        dict == [l \in DOMAIN self._complete_slug \cup {self.language} |->
                     IF l = self.language THEN self.url ELSE self._complete_slug[l]]
    IN  /\ self.pc = "slug_set"
        /\ cache' = [cache EXCEPT !.page_url[self.id] = dict]
        /\ objs' = Noted([objs EXCEPT ![o]._complete_slug = dict, ![o].pc = "idle",
                                      ![o].language = NoLanguage, ![o].url = ""])
        /\ ret' = [op |-> "get_complete_slug", obj |-> o, language |-> self.language,
                   hideroot |-> TRUE, value |-> self.url]
        /\ UNCHANGED <<now, settings, pages, contents>>

-----------------------------------------------------------------------------
(* The herd specification: two workers serve requests for the same page of   *)
(* a forest while nothing is written to the store                            *)

MaxHerdPages == 2       \* pages of a forest in the herd specification

\* revisions of the served page besides its slug
Translations(p) ==
    {[page |-> p, language |-> "fr", type |-> "slug", body |-> "a", creation_date |-> 1],
     [page |-> p, language |-> "en", type |-> "title", body |-> "b", creation_date |-> 2]}

InitHerd ==
    /\ now = 0
    /\ settings \in [GERBI_SHOW_START_DATE : {FALSE}, GERBI_SHOW_END_DATE : {FALSE},
                     GERBI_HIDE_ROOT_SLUG : BOOLEAN, GERBI_LANGUAGES : {<<"en", "fr">>}]
    /\ \E n \in 1..MaxHerdPages : \E pv \in ParentVectors(n) : pages = Forest(pv, n)
    /\ cache = EmptyCache
    /\ \E p \in DOMAIN pages :
           /\ objs = [o \in {1, 2} |-> Worker(LoadedPage(p), "reader")]
           /\ contents = Slugs(Cardinality(DOMAIN pages), 0) \cup Translations(p)
    /\ ret = NoRet

NextHerd ==
    \E o \in {1, 2} :
        \/ \E language \in Languages \cup {NoLanguage} : BuildBegin(o, objs[o].id, language)
        \/ BuildGet(o)
        \/ BuildQuery(o)
        \/ BuildSet(o)
        \/ \E language \in Languages \cup {NoLanguage} : SlugBegin(o, objs[o].id, language)
        \/ SlugGet(o)
        \/ SlugCompute(o)
        \/ SlugSet(o)

SpecHerd == InitHerd /\ [][NextHerd]_vars

\* what get_complete_slug computes for a page from the store alone
StoredSlugs(id, language) ==
    CompleteSlugs(LoadedPage(id), language,
                  settings.GERBI_HIDE_ROOT_SLUG /\ pages[id].parent = None /\ id = root[1])

\* the shared URL-path cache of a page holds nothing, or for each language it
\* holds the one url computed from the store
UrlCurrent(id) ==
    \/ cache.page_url[id] = NoDict
    \/ \A lang \in DOMAIN cache.page_url[id] :
           StoredSlugs(id, lang) = {cache.page_url[id][lang]}

\* C17: while nothing is written to the store, whatever the interleaving of
\* the workers that miss the cache of the same page, every content dict and
\* every url a worker returns, and every entry of the shared content cache and
\* URL-path cache, is the one value computed from the store, and the first-root
\* key names the first root.
HerdRebuildsAgree ==
    /\ \A p \in DOMAIN pages : CacheCurrent(p) /\ UrlCurrent(p)
    /\ cache.GERBI_FIRST_ROOT_ID \in {None, root[1]}
    /\ ret.op = "build_cache" =>
           /\ NeededFrom(ret.value, ret.language) = {}
           /\ \A lang \in DOMAIN ret.value :
                  LanguageDicts(LoadedPage(objs[ret.obj].id), lang) = {ret.value[lang]}
    /\ ret.op = "get_complete_slug" =>
           StoredSlugs(objs[ret.obj].id, ret.language) = {ret.value}

\* C17 witness: both workers missed the content cache of the page for the same
\* languages and rebuilt them; one has set the key and returned, the other is
\* about to set it again.
BothMissedBothStored ==
    /\ ret.op = "build_cache"
    /\ ret.needed # {}
    /\ \E o \in DOMAIN objs :
           /\ o # ret.obj
           /\ objs[o].pc = "build_set"
           /\ objs[o].needed = ret.needed
           /\ cache.gerbi_page[objs[o].id] = objs[o].cache

-----------------------------------------------------------------------------
(* The eviction specification: requests read freshly loaded pages of a       *)
(* forest while the cache backend drops keys and nothing writes the store    *)

MaxEvictPages == 2      \* pages of a forest in the eviction specification

\* the cache backend drops some of the keys that requests for a page fill: the
\* first-root key, the content key and the URL-path key of the page
Evict(id, first, content, url) ==
    /\ cache' = [cache EXCEPT
                     !.GERBI_FIRST_ROOT_ID = IF first THEN None ELSE @,
                     !.gerbi_page[id] = IF content THEN NoDict ELSE @,
                     !.page_url[id] = IF url THEN NoDict ELSE @]
    /\ ret' = [op |-> "evict", page |-> id]
    /\ UNCHANGED <<now, settings, pages, contents, objs>>

\* the instance is as Page.objects.get left it
Fresh(o) == objs[o] = LoadedPage(objs[o].id)

\* two requests at a time are served, both for the same page of the forest
InitEvict ==
    /\ now = 0
    /\ settings \in [GERBI_SHOW_START_DATE : {FALSE}, GERBI_SHOW_END_DATE : {FALSE},
                     GERBI_HIDE_ROOT_SLUG : BOOLEAN, GERBI_LANGUAGES : {<<"en", "fr">>}]
    /\ \E n \in 1..MaxEvictPages : \E pv \in ParentVectors(n) : pages = Forest(pv, n)
    /\ cache = EmptyCache
    /\ \E p \in DOMAIN pages :
           /\ objs = [o \in {1, 2} |-> LoadedPage(p)]
           /\ contents = Slugs(Cardinality(DOMAIN pages), 0) \cup Translations(p)
    /\ ret = NoRet

NextEvict ==
    \/ \E first \in BOOLEAN, content \in BOOLEAN, url \in BOOLEAN :
           Evict(objs[1].id, first, content, url)
    \/ \E o \in {1, 2} :
           \/ Load(o, objs[o].id)
           \/ \E language \in Languages \cup {NoLanguage} : Fresh(o) /\ BuildCache(o, language)
           \/ Fresh(o) /\ GetLanguages(o)
           \/ \E language \in Languages \cup {NoLanguage} :
                  Fresh(o) /\ GetCompleteSlug(o, language, TRUE)
           \/ Fresh(o) /\ IsFirstRoot(o)

SpecEvict == InitEvict /\ [][NextEvict]_vars

\* the configured languages in which the store holds a revision of the page
StoredLanguages(id) ==
    SelectSeq(GERBI_LANGUAGES, LAMBDA lang : \E c \in contents : c.page = id /\ c.language = lang)

\* C18: while nothing is written to the store, whatever keys the shared cache
\* has lost, a read on a freshly loaded page raises nothing and returns what
\* the store holds: build_cache the latest revisions of every language asked
\* for, get_languages the languages with content, get_complete_slug the path
\* from the stored slugs and is_first_root whether the page is the first root.
EvictionUnseen ==
    /\ ret.op = "build_cache" =>
           /\ ret.raised = "None"
           /\ NeededFrom(ret.value, ret.language) = {}
           /\ \A lang \in DOMAIN ret.value :
                  LanguageDicts(LoadedPage(objs[ret.obj].id), lang) = {ret.value[lang]}
    /\ ret.op = "get_languages" => ret.value = StoredLanguages(objs[ret.obj].id)
    /\ ret.op = "get_complete_slug" =>
           StoredSlugs(objs[ret.obj].id, ret.language) = {ret.value}
    /\ ret.op = "is_first_root" => ret.value = (objs[ret.obj].id = root[1])

\* C18 witness: a freshly loaded page has rebuilt languages of its content
\* cache that another instance of the page holds from an earlier build: the
\* key was dropped in between.
RebuiltAfterEviction ==
    /\ ret.op = "build_cache"
    /\ ret.raised = "None"
    /\ ret.needed # {}
    /\ \E o \in DOMAIN objs :
           /\ o # ret.obj
           /\ objs[o].id = objs[ret.obj].id
           /\ Truthy(objs[o].cache)
           /\ ret.needed \subseteq DOMAIN objs[o].cache

-----------------------------------------------------------------------------
(* The root specification: a forest that grows, is rearranged and shrinks,   *)
(* and the requests that ask a page whether it is the first root             *)

MaxRootPages == 2       \* pages of a forest in the root specification

InitRoot ==
    /\ now = 0
    /\ settings = DefaultSettings
    /\ \E n \in 1..MaxRootPages : \E pv \in ParentVectors(n) : pages = Forest(pv, n)
    /\ contents = {}
    /\ cache = EmptyCache
    /\ \E p \in DOMAIN pages : objs = [o \in {1} |-> LoadedPage(p)]
    /\ ret = NoRet

NextRoot ==
    \/ \E parent \in DOMAIN pages \cup {None} : NewInstance(1, parent)
    \/ /\ objs[1].id = None =>
              /\ Cardinality(DOMAIN pages) < MaxRootPages
              /\ objs[1].parent \in DOMAIN pages \cup {None}
              /\ objs[1].parent = None => NextTreeId(pages) <= MaxTreeId
       /\ PageSave(1)
    \/ \E target \in DOMAIN pages \cup {None}, position \in Positions :
           /\ target = None => NextTreeId(pages) <= MaxTreeId
           /\ (target # None /\ position \in {"left", "right"}) => pages[target].parent # None
           /\ MoveTo(1, target, position)
    \/ Delete(1)
    \/ IsFirstRoot(1)
    \/ \E p \in DOMAIN pages : Load(1, p)

SpecRoot == InitRoot /\ [][NextRoot]_vars

\* the pages that report is_first_root() true when loaded and asked
ReportFirstRoot == {p \in DOMAIN pages : is_first_root(LoadedPage(p)).value}

\* C19 (as claimed): after any saves, moves and deletions that leave pages in
\* the forest, the one page that reports is_first_root() true is the first of
\* the roots in their ordering, and the first-root key of the shared cache is
\* absent or names that page.
OneFirstRoot ==
    DOMAIN pages # {} =>
        /\ ReportFirstRoot = {root[1]}
        /\ cache.GERBI_FIRST_ROOT_ID \in {None, root[1]}

-----------------------------------------------------------------------------
(* The revision specification: one page, the revisions saved for it as new   *)
(* Content instances, and the stored revisions loaded, edited and saved      *)

MaxStoredRevisions == 2     \* revisions saved in the revision specification

\* Content.save of a stored revision whose body was edited: the page is
\* invalidated and Model.save writes the row of the instance
ContentResave(o, row, body) ==
    LET page == objs[o]
        edited == [row EXCEPT !.body = body]
    IN  /\ page.id \in DOMAIN pages
        /\ row \in contents
        /\ row.page = page.id
        /\ cache' = InvalidatedCache(cache, page.id)
        /\ objs' = [objs EXCEPT ![o] = InvalidatedPage(page)]
        /\ contents' = (contents \ {row}) \cup {edited}
        /\ ret' = [op |-> "content_save", obj |-> o, held |-> Held(page, page.id),
                   revision |-> edited]
        /\ UNCHANGED <<now, settings, pages>>

InitRevise ==
    /\ now = 0
    /\ settings = DefaultSettings
    /\ pages = Forest([i \in {1} |-> None], 1)
    /\ contents = Slugs(1, 0)
    /\ cache = EmptyCache
    /\ objs = [o \in {1} |-> LoadedPage(1)]
    /\ ret = NoRet

NextRevise ==
    \/ \E lang \in Languages, ctype \in Types, body \in Bodies :
           /\ Cardinality(contents) < 1 + MaxStoredRevisions
           /\ \A c \in contents : c.creation_date < now
           /\ ContentSave(1, lang, ctype, body, now)
    \/ \E row \in contents, body \in Bodies \cup {SlugOf(1)} : ContentResave(1, row, body)
    \/ BuildCache(1, NoLanguage)
    \/ Delete(1)
    \/ Tick

SpecRevise == InitRevise /\ [][NextRevise]_vars

\* C20 (as claimed): every save of content adds a revision whose creation
\* date is later than that of every stored one, and every revision stored
\* before the save is stored after it with the same page, language, type,
\* body and creation date.
RevisionsAppendOnly ==
    [][ret'.op = "content_save" =>
           /\ contents \subseteq contents'
           /\ \E c \in contents' \ contents :
                  \A d \in contents : d.creation_date < c.creation_date]_vars

-----------------------------------------------------------------------------------------------------------------------------------------------------
(* The scope specification: a forest whose pages have all been requested and *)
(* flagged by the link checker, so that the shared cache holds their         *)
(* entries, and whose pages are then saved, given revisions and invalidated  *)

MaxScopePages == 2      \* pages of a forest in the scope specification
MaxScopeRevisions == 1  \* revisions saved in the scope specification

\* the shared cache once build_cache() and get_complete_slug() have run on a
\* fresh instance of every page and every page was flagged
WarmCache ==
    [GERBI_FIRST_ROOT_ID |-> IF settings.GERBI_HIDE_ROOT_SLUG THEN root[1] ELSE None,
     gerbi_page |-> [p \in PageIds |->
                        IF p \in DOMAIN pages
                        THEN [lang \in Languages |->
                                 CHOOSE d \in LanguageDicts(LoadedPage(p), lang) : TRUE]
                        ELSE NoDict],
     page_url |-> [p \in PageIds |->
                      IF p \in DOMAIN pages
                      THEN [lang \in {GERBI_DEFAULT_LANGUAGE} |->
                               CHOOSE url \in CompleteSlugs(
                                   LoadedPage(p), lang,
                                   settings.GERBI_HIDE_ROOT_SLUG /\ p = root[1]) : TRUE]
                      ELSE NoDict],
     page_broken_link |-> [p \in PageIds |-> IF p \in DOMAIN pages THEN "True" ELSE "None"]]

InitScope ==
    /\ now = 1
    /\ settings \in [GERBI_SHOW_START_DATE : {FALSE}, GERBI_SHOW_END_DATE : {FALSE},
                     GERBI_HIDE_ROOT_SLUG : BOOLEAN, GERBI_LANGUAGES : {<<"en", "fr">>}]
    /\ \E n \in 1..MaxScopePages : \E pv \in ParentVectors(n) :
           /\ pages = Forest(pv, n)
           /\ contents = Slugs(n, 0)
    /\ cache = WarmCache
    /\ \E p \in DOMAIN pages : objs = [o \in {1} |-> LoadedPage(p)]
    /\ ret = NoRet

NextScope ==
    \/ \E p \in DOMAIN pages : Load(1, p)
    \/ PageSave(1)
    \/ Invalidate(1)
    \/ \E lang \in Languages, ctype \in Types, body \in Bodies :
           /\ Cardinality(contents) < Cardinality(DOMAIN pages) + MaxScopeRevisions
           /\ ContentSave(1, lang, ctype, body, now)

SpecScope == InitScope /\ [][NextScope]_vars

\* the pages above and below a page in its tree
Relatives(id) ==
    {q \in DOMAIN pages : /\ q # id
                          /\ pages[q].tree_id = pages[id].tree_id
                          /\ \/ pages[q].lft < pages[id].lft /\ pages[id].rght < pages[q].rght
                             \/ pages[id].lft < pages[q].lft /\ pages[q].rght < pages[id].rght}

WriteStep == ret'.op \in {"save", "content_save", "invalidate"}

\* C21: Page.save, Content.save and Page.invalidate on a page leave the
\* content cache entry, the URL-path entry and the broken-link flag of every
\* other page as they were, and remove the first-root key.
WritesTouchOnePage ==
    [][WriteStep =>
           /\ \A q \in PageIds \ {objs'[ret'.obj].id} :
                  /\ cache'.gerbi_page[q] = cache.gerbi_page[q]
                  /\ cache'.page_url[q] = cache.page_url[q]
                  /\ cache'.page_broken_link[q] = cache.page_broken_link[q]
           /\ cache'.GERBI_FIRST_ROOT_ID = None]_vars

\* C21 witness: a page was saved while the shared cache held the first-root
\* key, its own entries and the content entry, the URL-path entry and the
\* broken-link flag of a page above or below it, and these three are still
\* held.
SavedBesideCachedRelative ==
    /\ ret.op = "save"
    /\ ret.held.GERBI_FIRST_ROOT_ID
    /\ ret.held.gerbi_page /\ ret.held.page_url
    /\ \E q \in Relatives(objs[ret.obj].id) :
           /\ cache.gerbi_page[q] # NoDict
           /\ cache.page_url[q] # NoDict
           /\ cache.page_broken_link[q] = "True"

-----------------------------------------------------------------------------
(* The staleness specification: a tree of pages created with their slugs at  *)
(* an earlier time, the requests for their complete slugs, the new slugs     *)
(* saved for them and the saves of the pages                                 *)

MaxStalePages == 3      \* pages of a forest in the staleness specification
MaxStaleRevisions == 1  \* slug revisions saved in the staleness specification

InitStale ==
    /\ now = 1
    /\ settings = DefaultSettings
    /\ \E n \in 2..MaxStalePages : \E pv \in ParentVectors(n) :
           /\ \A i \in 2..n : pv[i] # None
           /\ pages = Forest(pv, n)
           /\ contents = Slugs(n, 0)
    /\ cache = EmptyCache
    /\ objs = [o \in {1} |-> LoadedPage(1)]
    /\ ret = NoRet

NextStale ==
    \/ \E p \in DOMAIN pages : Load(1, p)
    \/ GetCompleteSlug(1, NoLanguage, TRUE)
    \/ \E body \in Bodies :
           /\ Cardinality(contents) < Cardinality(DOMAIN pages) + MaxStaleRevisions
           /\ \A c \in contents : c.page = objs[1].id => c.creation_date < now
           /\ ContentSave(1, GERBI_DEFAULT_LANGUAGE, "slug", body, now)
    \/ PageSave(1)

SpecStale == InitStale /\ [][NextStale]_vars

\* the shared URL-path entry of a page names a path other than the one the
\* store gives
StalePath(id) ==
    /\ cache.page_url[id] # NoDict
    /\ \E lang \in DOMAIN cache.page_url[id] :
           StoredSlugs(id, lang) # {cache.page_url[id][lang]}

\* C22: a slug revision saved for a page leaves the cached complete paths of
\* the pages below it as they were; get_complete_slug of a page returns its
\* cached path as long as there is one, whatever slugs the store holds by
\* then; a save of the page removes its cached path, and the first
\* get_complete_slug after that save returns the path built from the slugs
\* that the store holds.
DescendantPathStaleUntilSaved ==
    [][/\ ret'.op = "content_save" =>
              \A d \in DOMAIN pages \ {objs'[ret'.obj].id} :
                  cache'.page_url[d] = cache.page_url[d]
       /\ ret'.op = "get_complete_slug" =>
              LET id == objs[ret'.obj].id
              IN  /\ (cache.page_url[id] # NoDict /\ ret'.language \in DOMAIN cache.page_url[id])
                         => /\ ret'.value = cache.page_url[id][ret'.language]
                            /\ cache'.page_url[id] = cache.page_url[id]
                  /\ ret.op = "save" => StoredSlugs(id, ret'.language) = {ret'.value}
       /\ ret'.op = "save" => cache'.page_url[objs'[ret'.obj].id] = NoDict]_vars

\* C22 witness: a new slug was saved for a page; of two pages below it one
\* has been saved and its complete slug, asked for since, is the path with the
\* new slug, while the cached path of the other is still the old one.
SavedDescendantFreshOtherStale ==
    /\ ret.op = "get_complete_slug"
    /\ LET d == objs[ret.obj].id
       IN  /\ pages[d].parent # None
           /\ pages[d].last_modification_date > 0
           /\ StoredSlugs(d, ret.language) = {ret.value}
           /\ \E c \in contents :
                  /\ c.page = pages[d].parent
                  /\ c.creation_date > 0
                  /\ c.creation_date <= pages[d].last_modification_date
           /\ \E e \in DOMAIN pages \ {d} :
                  /\ pages[e].parent = pages[d].parent
                  /\ StalePath(e)

-----------------------------------------------------------------------------
(* Claims on the hideroot argument, under SpecSlug *)

\* what get_complete_slug(language, hideroot) computes for a page from the
\* store alone
StoredSlugsFor(id, language, hideroot) ==
    CompleteSlugs(LoadedPage(id), language,
                  /\ hideroot
                  /\ settings.GERBI_HIDE_ROOT_SLUG
                  /\ pages[id].parent = None
                  /\ id = root[1])

\* C23 (as claimed): whatever calls came before and whatever the memo and the
\* shared URL-path cache hold, get_complete_slug(language, hideroot) returns
\* the path that the page, the language, hideroot and the store determine:
\* for the first root with GERBI_HIDE_ROOT_SLUG on, its slug when hideroot is
\* False and the empty path when it is True.
PathDependsOnArgumentsOnly ==
    ret.op = "get_complete_slug" =>
        StoredSlugsFor(objs[ret.obj].id, ret.language, ret.hideroot) = {ret.value}

-----------------------------------------------------------------------------
(* The walk specification: a reader opens a tree of the forest at its root   *)
(* and turns the pages with get_next_in_book until it returns no page        *)

\* page = root; trail = []
WalkStart(r) ==
    /\ pages[r].parent = None
    /\ ret' = [op |-> "walk", page |-> r, value |-> r, trail |-> <<>>]
    /\ UNCHANGED <<now, settings, pages, contents, cache, objs>>

\* page = page.get_next_in_book(); trail.append(page), while page is a page
WalkStep ==
    /\ ret.op = "walk"
    /\ IsPage(ret.value)
    /\ Len(ret.trail) <= Cardinality(DOMAIN pages)
    /\ ret' = [ret EXCEPT !.value = get_next_in_book(ret.value),
                          !.trail = Append(@, get_next_in_book(ret.value))]
    /\ UNCHANGED <<now, settings, pages, contents, cache, objs>>

NextWalk ==
    \/ \E r \in DOMAIN pages : WalkStart(r)
    \/ WalkStep

SpecWalk == InitBook /\ [][NextWalk]_vars

\* C24 (as claimed): the values that get_next_in_book returns one after the
\* other, from the root of a tree on, are the other pages of the tree in
\* prefix depth-first order, each once, and then None, where the walk ends.
WalkReadsTreeOnce ==
    ret.op = "walk" =>
        LET book == Book(ret.page)
        IN  /\ Len(ret.trail) <= Len(book)
            /\ \A i \in 1..Len(ret.trail) :
                   ret.trail[i] = IF i < Len(book) THEN book[i + 1] ELSE None

====
